---- MODULE Spec2Model ----
(***************************************************************************)
(* choji.store: the validation and caching utility layer.                  *)
(*                                                                         *)
(*   - memoizeValidator (src/src/utils/memoize.ts): a bounded, TTL-expiring *)
(*     result cache around a single-argument function, keyed by            *)
(*     JSON.stringify of the argument.                                     *)
(*   - generateProductSchema (src/src/utils/schemaGenerators.ts): fills    *)
(*     defaults, runs the validators of src/src/utils/validators.ts in     *)
(*     order and throws a typed error at the first failure.                *)
(*   - the validators themselves: the plain ones of validators.ts and the  *)
(*     strict, memoized ones of src/unnamed/part_018, with the URL and     *)
(*     number parsing they rely on.                                        *)
(*   - the tracking functions of src/src/utils/analytics.ts.               *)
(*   - the service worker's install and fetch handlers (src/sw.js,         *)
(*     src/public/sw.js).                                                  *)
(*                                                                         *)
(* JavaScript strings are sequences of one-character strings, so that      *)
(* serialisation and parsing are computed character by character.          *)
(* A call of memoized runs to completion at one instant of the clock       *)
(* (the code is synchronous; the tests freeze Date.now with fake timers).  *)
(***************************************************************************)
EXTENDS Integers, Sequences, FiniteSets

VARIABLES
    fn,        \* memoizeValidator's fn argument (the name of the wrapped function)
    maxSize,   \* memoizeValidator's maxSize argument
    cache,     \* the Map: entries [key, value, timestamp] in insertion order
    now,       \* Date.now()
    last,      \* the most recent operation on the wrapper and what the caller saw
    passed,    \* keys of the inputs passed since construction or the last clearCache
    config,    \* generateProductSchema: the config of the most recent call
    validated, \* generateProductSchema: the validators called, in call order
    result,    \* generateProductSchema: what the most recent call returned or threw
    call,      \* validators.ts: the most recent validator call and its outcome
    window,    \* analytics.ts: the global window and its umami object
    tracked,   \* analytics.ts: the calls of window.umami.track, in call order
    console,   \* analytics.ts: the console.error calls, in call order
    promises,  \* analytics.ts: the promises of the trackEvent and trackPageView calls
    returned,  \* analytics.ts: how the most recent call of an exported function returned
    script,    \* service worker: which of the two scripts is registered
    phase,     \* service worker: parsed, activated (installed) or redundant
    caches,    \* service worker: the entries of Cache Storage
    events,    \* service worker: the fetch events, in dispatch order
    organization, \* generateOrganizationSchema: the most recent call and its outcome
    gtagDefined,  \* cookieConsent.ts: typeof gtag !== 'undefined'
    consentMode,  \* cookieConsent.ts: the consent-mode state that gtag holds
    consentEvent, \* cookieConsent.ts: the most recent consent callback and its updates
    appVersion,       \* App.tsx: which of the two order forms the page has
    selectedQuantity, \* App.tsx: the selected quantity
    whatsappNumber,   \* App.tsx: the content of the WhatsApp number input
    isLoading,        \* App.tsx: the loading state of the form
    submission,       \* App.tsx: what the most recent run of handlePlaceOrder did
    maps,        \* memoize.ts: the Map objects that calls of memoizeValidator created
    wrappers,    \* memoize.ts: the wrappers created, each with its fn, maxSize and Map
    schemaCache, \* schemaCache.ts: the Map of the SchemaCache instance
    schemaOp     \* schemaCache.ts: the most recent call on schemaCache and what it returned

memoVars == <<fn, maxSize, cache, now, last, passed>>
productVars == <<config, validated, result>>
validatorVars == <<call>>
analyticsVars == <<window, tracked, console, promises, returned>>
serviceWorkerVars == <<script, phase, caches, events>>
organizationVars == <<organization>>
consentVars == <<gtagDefined, consentMode, consentEvent>>
orderVars == <<appVersion, selectedQuantity, whatsappNumber, isLoading, submission>>
wrapperVars == <<maps, wrappers>>
schemaCacheVars == <<schemaCache, schemaOp>>
appVars == <<organizationVars, consentVars, orderVars, wrapperVars, schemaCacheVars>>
vars == <<memoVars, productVars, validatorVars, analyticsVars, serviceWorkerVars, appVars>>

----------------------------------------------------------------------------
(* Bounds of the model *)

\* maxSize ranges over 0..MaxMaxSize and the default
MaxMaxSize == 3
\* the clock is observed around the multiples 0..MaxWindows of TTL
MaxWindows == 1
\* a memoized validator is called with at most MaxDistinctArgs distinct
\* arguments between two clearCache
MaxDistinctArgs == 1
\* the application makes at most MaxTrackCalls calls of the tracking functions
MaxTrackCalls == 2
\* at most MaxFetchEvents fetch events are dispatched to the service worker
MaxFetchEvents == 2

----------------------------------------------------------------------------
(* JavaScript values *)

JSValue(k, isNaN, n, s, i) == [kind |-> k, nan |-> isNaN, num |-> n, str |-> s, id |-> i]

Undefined == JSValue("undefined", FALSE, 0, <<>>, 0)
Null == JSValue("null", FALSE, 0, <<>>, 0)
NaN == JSValue("number", TRUE, 0, <<>>, 0)
Num(n) == JSValue("number", FALSE, n, <<>>, 0)
Str(s) == JSValue("string", FALSE, 0, s, 0)
Bool(b) == JSValue("boolean", FALSE, IF b THEN 1 ELSE 0, <<>>, 0)
\* the object literal { a: n, b: [s] } of the tests; i is the object's identity
Obj(i, n, s) == JSValue("object", FALSE, n, s, i)

\* the array [s] of one string
Arr(s) == JSValue("array", FALSE, 0, s, 0)

\* deep equality of values, whatever the identity of objects (NaN equals NaN)
StructEq(x, y) == [x EXCEPT !.id = 0] = [y EXCEPT !.id = 0]

Digits == <<"0", "1", "2", "3", "4", "5", "6", "7", "8", "9">>

RECURSIVE NatText(_)
NatText(n) == IF n < 10 THEN <<Digits[n + 1]>>
              ELSE NatText(n \div 10) \o <<Digits[(n % 10) + 1]>>

\* Number.prototype.toString of an integer
NumText(n) == IF n < 0 THEN <<"-">> \o NatText(0 - n) ELSE NatText(n)

\* JSON's quoting of a string: the quote and the backslash are escaped
RECURSIVE JSONquoteChars(_)
JSONquoteChars(s) ==
    IF s = <<>> THEN <<>>
    ELSE (IF Head(s) \in {"\"", "\\"} THEN <<"\\", Head(s)>> ELSE <<Head(s)>>)
         \o JSONquoteChars(Tail(s))

JSONquote(s) == <<"\"">> \o JSONquoteChars(s) \o <<"\"">>

\* JSON.stringify(undefined) is the value undefined, not a text: as a Map key it
\* differs from every text
UndefinedKey == <<"undefined">>

JSONstringify(v) ==
    CASE v.kind = "undefined" -> UndefinedKey
      [] v.kind = "null" -> <<"n", "u", "l", "l">>
      [] v.kind = "number" -> IF v.nan THEN <<"n", "u", "l", "l">> ELSE NumText(v.num)
      [] v.kind = "string" -> JSONquote(v.str)
      [] v.kind = "boolean" -> IF v.num = 1 THEN <<"t", "r", "u", "e">>
                               ELSE <<"f", "a", "l", "s", "e">>
      [] v.kind = "object" -> <<"{">> \o JSONquote(<<"a">>) \o <<":">> \o NumText(v.num)
                              \o <<",">> \o JSONquote(<<"b">>) \o <<":", "[">>
                              \o JSONquote(v.str) \o <<"]", "}">>
      [] v.kind = "array" -> <<"[">> \o JSONquote(v.str) \o <<"]">>

\* String(x)
JSToString(v) ==
    CASE v.kind = "undefined" -> <<"u", "n", "d", "e", "f", "i", "n", "e", "d">>
      [] v.kind = "null" -> <<"n", "u", "l", "l">>
      [] v.kind = "number" -> IF v.nan THEN <<"N", "a", "N">> ELSE NumText(v.num)
      [] v.kind = "string" -> v.str
      [] v.kind = "boolean" -> IF v.num = 1 THEN <<"t", "r", "u", "e">>
                               ELSE <<"f", "a", "l", "s", "e">>
      [] v.kind = "object" -> <<"[", "o", "b", "j", "e", "c", "t", " ",
                                "O", "b", "j", "e", "c", "t", "]">>
      [] v.kind = "array" -> v.str

----------------------------------------------------------------------------
(* Number parsing (parseFloat, parseInt) on character sequences.            *)
(* A parsed number is NaN or the rational sign * num / den (den a power of  *)
(* ten), or an infinity.                                                    *)

DigitSet == {Digits[i] : i \in 1..10}
DigitValue(c) == (CHOOSE i \in 1..10 : Digits[i] = c) - 1

IsWhiteSpace(c) == c \in {" ", "\t", "\n"}

RECURSIVE TrimStart(_)
TrimStart(s) == IF s # <<>> /\ IsWhiteSpace(Head(s)) THEN TrimStart(Tail(s)) ELSE s

\* the longest prefix of s made of digits
RECURSIVE DigitPrefix(_)
DigitPrefix(s) ==
    IF s # <<>> /\ Head(s) \in DigitSet THEN <<Head(s)>> \o DigitPrefix(Tail(s)) ELSE <<>>

RECURSIVE Pow10(_)
Pow10(n) == IF n <= 0 THEN 1 ELSE 10 * Pow10(n - 1)

RECURSIVE SkipZeros(_)
SkipZeros(ds) == IF ds # <<>> /\ Head(ds) = "0" THEN SkipZeros(Tail(ds)) ELSE ds

\* the value of a run of digits; a value of ten digits or more is held as
\* 10^9: the code compares parsed numbers with 0, 5 and 65535 only
RECURSIVE DigitsValue(_)
DigitsValue(ds) ==
    IF ds = <<>> THEN 0
    ELSE IF Len(SkipZeros(ds)) > 9 THEN Pow10(9)
    ELSE DigitsValue(SubSeq(ds, 1, Len(ds) - 1)) * 10 + DigitValue(ds[Len(ds)])

Drop(s, n) == SubSeq(s, n + 1, Len(s))

StartsWith(s, p) == Len(s) >= Len(p) /\ SubSeq(s, 1, Len(p)) = p

NumberNaN == [nan |-> TRUE, inf |-> FALSE, neg |-> FALSE, num |-> 0, den |-> 1]
Number(neg, n, d) == [nan |-> FALSE, inf |-> FALSE, neg |-> neg, num |-> n, den |-> d]
NumberInfinity(neg) == [nan |-> FALSE, inf |-> TRUE, neg |-> neg, num |-> 0, den |-> 1]

\* x >= 0 and x <= 5 as JavaScript compares numbers (false on NaN; -0 >= 0)
NumberInRange(x, lo, hi) ==
    /\ ~x.nan /\ ~x.inf
    /\ (IF x.neg THEN 0 - x.num ELSE x.num) >= lo * x.den
    /\ (IF x.neg THEN 0 - x.num ELSE x.num) <= hi * x.den

NumberAtLeast(x, lo) ==
    /\ ~x.nan
    /\ \/ (x.inf /\ ~x.neg)
       \/ (~x.inf /\ (IF x.neg THEN 0 - x.num ELSE x.num) >= lo * x.den)

\* the number sign * digits / 10^fracLen scaled by the exponent, if any
Scaled(neg, digits, fracLen, expNeg, expDigits) ==
    IF expNeg
    THEN Number(neg, DigitsValue(digits), Pow10(fracLen + DigitsValue(expDigits)))
    ELSE Number(neg, DigitsValue(digits) * Pow10(DigitsValue(expDigits)), Pow10(fracLen))

\* the digits of an exponent part after its e
ExponentDigits(afterE) ==
    DigitPrefix(IF afterE # <<>> /\ Head(afterE) \in {"+", "-"} THEN Tail(afterE)
                ELSE afterE)

ParseExponent(neg, int, frac, afterFrac) ==
    IF int = <<>> /\ frac = <<>> THEN NumberNaN
    ELSE IF afterFrac # <<>> /\ Head(afterFrac) \in {"e", "E"}
    THEN Scaled(neg, int \o frac, Len(frac),
                Len(afterFrac) > 1 /\ afterFrac[2] = "-",
                ExponentDigits(Tail(afterFrac)))
    ELSE Scaled(neg, int \o frac, Len(frac), FALSE, <<>>)

ParseFraction(neg, int, afterInt) ==
    IF afterInt # <<>> /\ Head(afterInt) = "."
    THEN ParseExponent(neg, int, DigitPrefix(Tail(afterInt)),
                       Drop(afterInt, 1 + Len(DigitPrefix(Tail(afterInt)))))
    ELSE ParseExponent(neg, int, <<>>, afterInt)

ParseUnsigned(neg, u) ==
    IF StartsWith(u, <<"I", "n", "f", "i", "n", "i", "t", "y">>) THEN NumberInfinity(neg)
    ELSE ParseFraction(neg, DigitPrefix(u), Drop(u, Len(DigitPrefix(u))))

ParseSigned(t) ==
    ParseUnsigned(t # <<>> /\ Head(t) = "-",
                  IF t # <<>> /\ Head(t) \in {"+", "-"} THEN Tail(t) ELSE t)

\* parseFloat(string): leading white space, a sign, then the longest prefix
\* that is a decimal literal (digits, a fraction, an exponent) or Infinity
parseFloat(str) == ParseSigned(TrimStart(str))

\* parseInt(string, 10): leading white space, a sign, then the longest prefix
\* of digits
parseInt(str) ==
    LET t == TrimStart(str)
        neg == t # <<>> /\ Head(t) = "-"
        u == IF t # <<>> /\ Head(t) \in {"+", "-"} THEN Tail(t) ELSE t
        int == DigitPrefix(u)
    IN  IF int = <<>> THEN NumberNaN ELSE Number(neg, DigitsValue(int), 1)

----------------------------------------------------------------------------
(* new URL(url): the URL parser of the platform, for absolute URLs without  *)
(* percent-encoded hosts, IDN labels, dot segments and file: URLs (none of *)
(* which occur in the inputs); the path and the query are kept as written.  *)

\* a text as the sequence of its characters
Chars(s) == [i \in 1..Len(s) |-> SubSeq(s, i, i)]

\* the first position of s holding a character of set, or Len(s) + 1
FirstIndex(s, set) ==
    IF \E i \in 1..Len(s) : s[i] \in set
    THEN CHOOSE i \in 1..Len(s) : s[i] \in set /\ \A j \in 1..(i - 1) : s[j] \notin set
    ELSE Len(s) + 1

\* String.prototype.split(ch)
RECURSIVE Split(_, _)
Split(s, ch) ==
    LET i == FirstIndex(s, {ch})
    IN  IF i > Len(s) THEN <<s>> ELSE <<SubSeq(s, 1, i - 1)>> \o Split(Drop(s, i), ch)

\* String.prototype.includes(sub)
Includes(s, sub) == \E i \in 1..(Len(s) - Len(sub) + 1) : SubSeq(s, i, i + Len(sub) - 1) = sub

EndsWith(s, p) == Len(s) >= Len(p) /\ SubSeq(s, Len(s) - Len(p) + 1, Len(s)) = p

UpperLetters == Chars("ABCDEFGHIJKLMNOPQRSTUVWXYZ")
LowerLetters == Chars("abcdefghijklmnopqrstuvwxyz")
Letters == {UpperLetters[i] : i \in 1..26} \cup {LowerLetters[i] : i \in 1..26}

ToLowerChar(c) ==
    IF \E i \in 1..26 : UpperLetters[i] = c
    THEN LowerLetters[CHOOSE i \in 1..26 : UpperLetters[i] = c]
    ELSE c

ToLowerCase(s) == [i \in 1..Len(s) |-> ToLowerChar(s[i])]

HexDigits == Chars("0123456789abcdef")
HexSet == {HexDigits[i] : i \in 1..16}
HexValue(c) == (CHOOSE i \in 1..16 : HexDigits[i] = c) - 1

\* the value of the digits ds in the given base
RECURSIVE BaseValue(_, _)
BaseValue(ds, base) ==
    IF ds = <<>> THEN 0
    ELSE BaseValue(SubSeq(ds, 1, Len(ds) - 1), base) * base + HexValue(ds[Len(ds)])

RECURSIVE HexText(_)
HexText(n) == IF n < 16 THEN <<HexDigits[n + 1]>>
              ELSE HexText(n \div 16) \o <<HexDigits[(n % 16) + 1]>>

AllIn(s, set) == \A i \in 1..Len(s) : s[i] \in set

RECURSIVE Pow256(_)
Pow256(n) == IF n <= 0 THEN 1 ELSE 256 * Pow256(n - 1)

\* the IPv4 number parser: 0x starts a hexadecimal part, a leading 0 an octal
\* one; -1 is failure
IPv4Number(part) ==
    LET p == ToLowerCase(part) IN
    IF p = <<>> THEN -1
    ELSE IF StartsWith(p, <<"0", "x">>)
    THEN (IF AllIn(Drop(p, 2), HexSet) THEN BaseValue(Drop(p, 2), 16) ELSE -1)
    ELSE IF Len(p) >= 2 /\ Head(p) = "0"
    THEN (IF AllIn(Tail(p), {"0", "1", "2", "3", "4", "5", "6", "7"})
          THEN BaseValue(Tail(p), 8) ELSE -1)
    ELSE IF AllIn(p, DigitSet) THEN BaseValue(p, 10) ELSE -1

\* the parts of a host between dots, a single trailing empty part dropped
HostParts(host) ==
    LET parts == Split(host, ".")
    IN  IF Len(parts) > 1 /\ parts[Len(parts)] = <<>>
        THEN SubSeq(parts, 1, Len(parts) - 1) ELSE parts

\* the ends-in-a-number checker
EndsInANumber(host) ==
    LET parts == HostParts(host)
        lastPart == parts[Len(parts)]
    IN  \/ (lastPart # <<>> /\ AllIn(lastPart, DigitSet))
        \/ (StartsWith(ToLowerCase(lastPart), <<"0", "x">>)
            /\ AllIn(Drop(ToLowerCase(lastPart), 2), HexSet))

\* the IPv4 parser: the four octets of the address, or <<>> for failure; the
\* last part fills the octets the parts before it leave (a single part of
\* 2^31 or more is outside the inputs)
IPv4Parse(host) ==
    LET parts == HostParts(host)
        n == Len(parts)
        nums == [i \in 1..n |-> IPv4Number(parts[i])]
    IN  IF n > 4 \/ \E i \in 1..n : nums[i] < 0 THEN <<>>
        ELSE IF \E i \in 1..(n - 1) : nums[i] > 255 THEN <<>>
        ELSE IF n > 1 /\ nums[n] >= Pow256(5 - n) THEN <<>>
        ELSE [i \in 1..4 |->
                IF i < n THEN nums[i] ELSE (nums[n] \div Pow256(4 - i)) % 256]

\* the IPv4 serializer
IPv4Text(a) ==
    NatText(a[1]) \o <<".">> \o NatText(a[2]) \o <<".">> \o NatText(a[3]) \o <<".">>
    \o NatText(a[4])

\* a piece of an IPv6 address: one to four hexadecimal digits
IsPiece(g) == Len(g) \in 1..4 /\ AllIn(g, HexSet)

\* the pieces written in a part of an IPv6 address
Groups(part) == IF part = <<>> THEN <<>> ELSE Split(part, ":")

\* the position of the first :: of t, or 0
FirstCompression(t) ==
    IF Includes(t, <<":", ":">>)
    THEN CHOOSE i \in 1..(Len(t) - 1) :
            /\ SubSeq(t, i, i + 1) = <<":", ":">>
            /\ \A j \in 1..(i - 1) : SubSeq(t, j, j + 1) # <<":", ":">>
    ELSE 0

\* the eight pieces of an address written as the groups left and right of its
\* :: (compressed), or as the eight groups left; <<>> for failure
IPv6Pieced(left, right, compressed) ==
    IF \E i \in 1..Len(left) : ~IsPiece(left[i]) THEN <<>>
    ELSE IF \E i \in 1..Len(right) : ~IsPiece(right[i]) THEN <<>>
    ELSE IF ~compressed /\ Len(left) # 8 THEN <<>>
    ELSE IF compressed /\ Len(left) + Len(right) > 7 THEN <<>>
    ELSE [i \in 1..8 |->
            IF i <= Len(left) THEN BaseValue(left[i], 16)
            ELSE IF i > 8 - Len(right) THEN BaseValue(right[i - (8 - Len(right))], 16)
            ELSE 0]

IPv6Split(t, at) ==
    IF at = 0 THEN IPv6Pieced(Groups(t), <<>>, FALSE)
    ELSE IPv6Pieced(Groups(SubSeq(t, 1, at - 1)), Groups(Drop(t, at + 1)), TRUE)

IPv6Lower(t) == IPv6Split(t, FirstCompression(t))

\* the IPv6 parser, for addresses without an embedded IPv4 part: the eight
\* pieces, or <<>> for failure
IPv6Parse(text) == IPv6Lower(ToLowerCase(text))

\* the number of zero pieces of p from piece i on
RECURSIVE ZeroRun(_, _)
ZeroRun(p, i) == IF i > 8 \/ p[i] # 0 THEN 0 ELSE 1 + ZeroRun(p, i + 1)

\* the first piece of the first longest run of two or more zero pieces, or 0
Compressed(p) ==
    IF \E s \in 1..8 : ZeroRun(p, s) >= 2
    THEN CHOOSE s \in 1..8 :
            /\ ZeroRun(p, s) >= 2
            /\ \A u \in 1..8 : ZeroRun(p, u) <= ZeroRun(p, s)
            /\ \A u \in 1..(s - 1) : ZeroRun(p, u) < ZeroRun(p, s)
    ELSE 0

RECURSIVE IPv6Pieces(_, _)
IPv6Pieces(p, i) ==
    IF i > 8 THEN <<>>
    ELSE IF i = Compressed(p)
    THEN (IF i = 1 THEN <<":", ":">> ELSE <<":">>) \o IPv6Pieces(p, i + ZeroRun(p, i))
    ELSE HexText(p[i]) \o (IF i < 8 THEN <<":">> ELSE <<>>) \o IPv6Pieces(p, i + 1)

\* the IPv6 serializer: the first longest run of two or more zero pieces is
\* written as ::
IPv6Text(p) == IPv6Pieces(p, 1)

ForbiddenHostChars ==
    {" ", "#", "/", ":", "<", ">", "?", "@", "[", "\\", "]", "^", "|", "%", "\t", "\n"}

HostFailure == [ok |-> FALSE, hostname |-> <<>>]

IPv6Host(pieces) ==
    IF pieces = <<>> THEN HostFailure
    ELSE [ok |-> TRUE, hostname |-> <<"[">> \o IPv6Text(pieces) \o <<"]">>]

IPv4Host(octets) ==
    IF octets = <<>> THEN HostFailure ELSE [ok |-> TRUE, hostname |-> IPv4Text(octets)]

\* the host parser of a special scheme
HostParse(host) ==
    IF host # <<>> /\ Head(host) = "["
    THEN (IF host[Len(host)] # "]" THEN HostFailure
          ELSE IPv6Host(IPv6Parse(SubSeq(host, 2, Len(host) - 1))))
    ELSE IF host = <<>> \/ \E i \in 1..Len(host) : host[i] \in ForbiddenHostChars
    THEN HostFailure
    ELSE IF EndsInANumber(host) THEN IPv4Host(IPv4Parse(host))
    ELSE [ok |-> TRUE, hostname |-> ToLowerCase(host)]

SpecialSchemes == {Chars("http"), Chars("https"), Chars("ftp"), Chars("ws"), Chars("wss")}

DefaultPort(scheme) ==
    CASE scheme \in {Chars("http"), Chars("ws")} -> 80
      [] scheme \in {Chars("https"), Chars("wss")} -> 443
      [] scheme = Chars("ftp") -> 21
      [] OTHER -> -1

URLFailure == [ok |-> FALSE, protocol |-> <<>>, hostname |-> <<>>, port |-> <<>>,
               pathname |-> <<>>, search |-> <<>>]

RECURSIVE TrimEnd(_)
TrimEnd(s) ==
    IF s # <<>> /\ IsWhiteSpace(s[Len(s)]) THEN TrimEnd(SubSeq(s, 1, Len(s) - 1)) ELSE s

RECURSIVE SkipSlashes(_)
SkipSlashes(s) == IF s # <<>> /\ Head(s) \in {"/", "\\"} THEN SkipSlashes(Tail(s)) ELSE s

ValidScheme(s, colon) ==
    /\ colon <= Len(s) /\ colon > 1
    /\ s[1] \in Letters
    /\ AllIn(SubSeq(s, 1, colon - 1), Letters \cup DigitSet \cup {"+", "-", "."})

\* the host of an authority without credentials: up to the colon of the port,
\* which inside brackets is no separator
HostEnd(hostport) ==
    IF hostport # <<>> /\ Head(hostport) = "["
    THEN (IF FirstIndex(hostport, {"]"}) < Len(hostport)
             /\ hostport[FirstIndex(hostport, {"]"}) + 1] = ":"
          THEN FirstIndex(hostport, {"]"}) + 1
          ELSE Len(hostport) + 1)
    ELSE FirstIndex(hostport, {":"})

\* the authority after its credentials (the text up to the last @)
HostPort(authority) ==
    IF \E i \in 1..Len(authority) : authority[i] = "@"
    THEN Drop(authority, CHOOSE i \in 1..Len(authority) :
                            /\ authority[i] = "@"
                            /\ \A j \in (i + 1)..Len(authority) : authority[j] # "@")
    ELSE authority

PortOk(portText) == AllIn(portText, DigitSet) /\ DigitsValue(portText) <= 65535

\* the port attribute: empty for no port and for the scheme's default port
PortOf(scheme, portText) ==
    IF portText = <<>> \/ DigitsValue(portText) = DefaultPort(scheme)
    THEN <<>> ELSE NatText(DigitsValue(portText))

ParsedHost(scheme, host) ==
    IF scheme \in SpecialSchemes THEN HostParse(host)
    ELSE IF \E i \in 1..Len(host) : host[i] \in ForbiddenHostChars \ {"%"}
    THEN HostFailure
    ELSE [ok |-> TRUE, hostname |-> host]

\* the pathname of what follows the authority: up to ? or #
Pathname(scheme, tail) ==
    LET path == SubSeq(tail, 1, FirstIndex(tail, {"?", "#"}) - 1)
    IN  IF scheme \notin SpecialSchemes THEN path
        ELSE IF path = <<>> THEN <<"/">>
        ELSE [i \in 1..Len(path) |-> IF path[i] = "\\" THEN "/" ELSE path[i]]

\* the search of what follows the path: ? and the query up to #, or empty
Search(afterPath) ==
    IF afterPath # <<>> /\ Head(afterPath) = "?"
       /\ FirstIndex(afterPath, {"#"}) > 2
    THEN SubSeq(afterPath, 1, FirstIndex(afterPath, {"#"}) - 1)
    ELSE <<>>

URLOf(scheme, parsedHost, portText, tail) ==
    IF ~parsedHost.ok \/ ~PortOk(portText) THEN URLFailure
    ELSE [ok |-> TRUE, protocol |-> scheme \o <<":">>,
          hostname |-> parsedHost.hostname,
          port |-> PortOf(scheme, portText),
          pathname |-> Pathname(scheme, tail),
          search |-> Search(Drop(tail, FirstIndex(tail, {"?", "#"}) - 1))]

URLHostPort(scheme, hostport, tail) ==
    URLOf(scheme, ParsedHost(scheme, SubSeq(hostport, 1, HostEnd(hostport) - 1)),
          Drop(hostport, HostEnd(hostport)), tail)

\* the URL of a scheme and what follows its authority slashes
URLAuthority(scheme, after, ends) ==
    URLHostPort(scheme, HostPort(SubSeq(after, 1, FirstIndex(after, ends) - 1)),
                Drop(after, FirstIndex(after, ends) - 1))

\* the URL of a scheme and the text after its colon: a special scheme skips
\* any run of slashes before its authority, another scheme has an authority
\* only after //
URLAfterScheme(scheme, rest) ==
    IF scheme \in SpecialSchemes
    THEN URLAuthority(scheme, SkipSlashes(rest), {"/", "\\", "?", "#"})
    ELSE IF StartsWith(rest, <<"/", "/">>)
    THEN URLAuthority(scheme, Drop(rest, 2), {"/", "?", "#"})
    ELSE URLOf(scheme, [ok |-> TRUE, hostname |-> <<>>], <<>>, rest)

URLSplit(s, colon) ==
    IF ~ValidScheme(s, colon) THEN URLFailure
    ELSE URLAfterScheme(ToLowerCase(SubSeq(s, 1, colon - 1)), Drop(s, colon))

URLStripped(s) == URLSplit(s, FirstIndex(s, {":"}))

\* new URL(url): protocol, hostname, port, pathname and search of the parsed
\* URL, or failure (the constructor throws)
URL(url) ==
    URLStripped(SelectSeq(TrimEnd(TrimStart(url)), LAMBDA c : c \notin {"\t", "\n"}))

----------------------------------------------------------------------------
(* The wrapped functions *)

VALID_CURRENCIES == {<<"U", "S", "D">>, <<"E", "U", "R">>, <<"G", "B", "P">>,
                     <<"J", "P", "Y">>, <<"C", "A", "D">>, <<"A", "U", "D">>}

VALID_AVAILABILITY_STATES ==
    {<<"h", "t", "t", "p", "s", ":", "/", "/", "s", "c", "h", "e", "m", "a", ".", "o", "r", "g", "/", "I", "n", "S", "t", "o", "c", "k">>,
     <<"h", "t", "t", "p", "s", ":", "/", "/", "s", "c", "h", "e", "m", "a", ".", "o", "r", "g", "/", "O", "u", "t", "O", "f", "S", "t", "o", "c", "k">>,
     <<"h", "t", "t", "p", "s", ":", "/", "/", "s", "c", "h", "e", "m", "a", ".", "o", "r", "g", "/", "P", "r", "e", "O", "r", "d", "e", "r">>,
     <<"h", "t", "t", "p", "s", ":", "/", "/", "s", "c", "h", "e", "m", "a", ".", "o", "r", "g", "/", "D", "i", "s", "c", "o", "n", "t", "i", "n", "u", "e", "d">>}

\* what a call of a function gives its caller: a value, or a thrown TypeError
Returns(v) == [thrown |-> FALSE, value |-> v]
Throws == [thrown |-> TRUE, value |-> Undefined]

\* (x: number) => x * 2
double(x) == Returns(IF x.kind = "number" /\ ~x.nan THEN Num(x.num * 2) ELSE NaN)

\* (x: unknown) => String(x)
String(x) == Returns(Str(JSToString(x)))

_isValidCurrency(currency) ==
    IF currency.kind # "string" THEN Throws
    ELSE Returns(Bool(currency.str \in VALID_CURRENCIES))

\* (obj: { a: number; b: string[] }) => obj.b.length: b holds one string
bLength(obj) == Returns(Num(1))

\* /^(\d{1,3}\.){3}\d{1,3}$/
ipv4Regex(hostname) ==
    LET parts == Split(hostname, ".")
    IN  Len(parts) = 4 /\ \A i \in 1..4 : Len(parts[i]) \in 1..3 /\ AllIn(parts[i], DigitSet)

\* /^(\[([0-9a-fA-F]{0,4}:){1,7}[0-9a-fA-F]{0,4}\])$/
ipv6Regex(hostname) ==
    /\ Len(hostname) >= 2 /\ Head(hostname) = "[" /\ hostname[Len(hostname)] = "]"
    /\ LET groups == Split(SubSeq(hostname, 2, Len(hostname) - 1), ":")
       IN  /\ Len(groups) \in 2..8
           /\ \A i \in 1..Len(groups) :
                 Len(groups[i]) <= 4 /\ AllIn(ToLowerCase(groups[i]), HexSet)

\* lines 46-47: at least two parts, none empty, none starting or ending with -
hasValidDomain(hostnameParts) ==
    /\ Len(hostnameParts) >= 2
    /\ \A i \in 1..Len(hostnameParts) :
          /\ Len(hostnameParts[i]) > 0
          /\ Head(hostnameParts[i]) # "-"
          /\ hostnameParts[i][Len(hostnameParts[i])] # "-"

\* lines 50-51
hasValidTld(tld) == Len(tld) >= 2 /\ ~AllIn(tld, DigitSet)

\* lines 54-59: a port that is present and not in 1..65535
BadPort(port) ==
    port # <<>> /\ (parseInt(port).nan \/ ~NumberAtLeast(parseInt(port), 1)
                    \/ ~NumberInRange(parseInt(port), 0, 65535))

\* part_018 lines 24-68, after new URL(url) has given parsedUrl
ValidParsedUrl(url, parsedUrl, hostnameParts) ==
    IF ~parsedUrl.ok THEN FALSE
    ELSE IF parsedUrl.protocol \notin {Chars("http:"), Chars("https:")} THEN FALSE
    ELSE IF ipv4Regex(parsedUrl.hostname) \/ ipv6Regex(parsedUrl.hostname)
    THEN (IF ipv4Regex(parsedUrl.hostname)
          THEN \A i \in 1..Len(hostnameParts) :
                  /\ DigitsValue(hostnameParts[i]) >= 0
                  /\ DigitsValue(hostnameParts[i]) <= 255
          ELSE TRUE)
    ELSE IF BadPort(parsedUrl.port) THEN FALSE
    ELSE IF /\ Includes(url, <<"/", "/">>)
            /\ Includes(parsedUrl.pathname \o parsedUrl.search, <<"/", "/">>)
    THEN FALSE
    ELSE /\ hasValidDomain(hostnameParts)
         /\ hasValidTld(hostnameParts[Len(hostnameParts)])

ValidUrlParsed(url, parsedUrl) ==
    ValidParsedUrl(url, parsedUrl, Split(parsedUrl.hostname, "."))

\* part_018 lines 21-71, on the text of a string argument
ValidUrlText(url) == ValidUrlParsed(url, URL(url))

_isValidUrl(url) ==
    IF url.kind # "string" THEN Throws ELSE Returns(Bool(ValidUrlText(url.str)))

_isValidAvailability(state) ==
    IF state.kind # "string" THEN Throws
    ELSE Returns(Bool(state.str \in VALID_AVAILABILITY_STATES))

\* _isValidRating without the check of the decimal places of lines 134-142
ValidRatingTextAnyDecimals(rating) ==
    LET numericRating == parseFloat(rating)
    IN  IF \E i \in 1..Len(rating) : rating[i] \notin DigitSet \cup {"."} THEN FALSE
        ELSE IF StartsWith(rating, <<".">>) \/ EndsWith(rating, <<".">>) THEN FALSE
        ELSE IF Cardinality({i \in 1..Len(rating) : rating[i] = "."}) > 1 THEN FALSE
        ELSE IF Len(rating) >= 2 /\ rating[1] = "0" /\ rating[2] \in DigitSet THEN FALSE
        ELSE IF Includes(rating, <<" ">>) THEN FALSE
        ELSE IF numericRating.nan THEN FALSE
        ELSE NumberInRange(numericRating, 0, 5)

\* part_018 lines 123-144, on the text of a string argument
ValidRatingText(rating) ==
    LET numericRating == parseFloat(rating)
        decimalParts == Split(rating, ".")
        decimalPart == decimalParts[2]
    IN  IF \E i \in 1..Len(rating) : rating[i] \notin DigitSet \cup {"."} THEN FALSE
        ELSE IF StartsWith(rating, <<".">>) \/ EndsWith(rating, <<".">>) THEN FALSE
        ELSE IF Cardinality({i \in 1..Len(rating) : rating[i] = "."}) > 1 THEN FALSE
        ELSE IF Len(rating) >= 2 /\ rating[1] = "0" /\ rating[2] \in DigitSet THEN FALSE
        ELSE IF Includes(rating, <<" ">>) THEN FALSE
        ELSE IF numericRating.nan THEN FALSE
        ELSE IF ~NumberInRange(numericRating, 0, 5) THEN FALSE
        ELSE IF Len(decimalParts) > 1
        THEN (IF Len(decimalPart) > 2 THEN FALSE
              ELSE decimalPart \in {Chars("0"), Chars("25"), Chars("5"), Chars("75")})
        ELSE TRUE

_isValidRating(rating) ==
    IF rating.kind # "string" THEN Throws ELSE Returns(Bool(ValidRatingText(rating.str)))

\* part_018 lines 159-164, on the text of a string argument
ValidReviewCountText(count) ==
    IF ~(count # <<>> /\ AllIn(count, DigitSet)) THEN FALSE
    ELSE NumberAtLeast(parseInt(count), 0)

_isValidReviewCount(count) ==
    IF count.kind # "string" THEN Throws
    ELSE Returns(Bool(ValidReviewCountText(count.str)))

Fns == {"double", "String", "bLength", "_isValidCurrency"}

Apply(f, x) ==
    CASE f = "double" -> double(x)
      [] f = "String" -> String(x)
      [] f = "bLength" -> bLength(x)
      [] f = "_isValidCurrency" -> _isValidCurrency(x)
      [] f = "_isValidUrl" -> _isValidUrl(x)
      [] f = "_isValidAvailability" -> _isValidAvailability(x)
      [] f = "_isValidRating" -> _isValidRating(x)
      [] f = "_isValidReviewCount" -> _isValidReviewCount(x)

\* the arguments each function is called with
InputsOf(f) ==
    CASE f = "double" -> {Num(1), Num(2), Num(3)}
      [] f = "String" -> {Undefined, Null, NaN}
      [] f = "bLength" -> {Obj(1, 1, <<"t">>), Obj(2, 1, <<"t">>), Obj(3, 2, <<"t">>)}
      [] f = "_isValidCurrency" -> {Str(<<"U", "S", "D">>), Str(<<"u", "s", "d">>), Null}

----------------------------------------------------------------------------
(* memoizeValidator *)

TTL == 5 * 60 * 1000

DefaultMaxSize == 100

MaxSizes == (0..MaxMaxSize) \cup {DefaultMaxSize}

\* the instants at which the clock is read: around each multiple of TTL, and the
\* four minutes of the TTL test
Instants == {t \in {w * TTL + d : w \in 0..MaxWindows, d \in {-1, 0, 1}} : t >= 0}
            \cup {4 * 60 * 1000}

Entry(k, v, t) == [key |-> k, value |-> v, timestamp |-> t]

Keys(c) == {c[i].key : i \in 1..Len(c)}

\* Map.prototype.has / get
MapHas(c, k) == k \in Keys(c)
MapGet(c, k) == c[CHOOSE i \in 1..Len(c) : c[i].key = k]

\* Map.prototype.set: an existing key keeps its place in the iteration order
MapSet(c, k, v, t) ==
    IF MapHas(c, k)
    THEN [i \in 1..Len(c) |-> IF c[i].key = k THEN Entry(k, v, t) ELSE c[i]]
    ELSE Append(c, Entry(k, v, t))

\* the sweep: deletes the entries older than TTL
cleanup(c, t) ==
    LET keep(e) == ~(t - e.timestamp > TTL) IN SelectSeq(c, keep)

\* MakeRoom deleting the newest entry instead of the oldest
MakeRoomDeletesNewest(c, m, t) ==
    IF Len(c) >= m
    THEN LET swept == cleanup(c, t) IN
         IF Len(swept) >= m /\ Len(swept) > 0
         THEN SubSeq(swept, 1, Len(swept) - 1) ELSE swept
    ELSE c

\* lines 39-48: the cache after making room
MakeRoom(c, m, t) ==
    IF Len(c) >= m
    THEN LET swept == cleanup(c, t) IN
         IF Len(swept) >= m /\ Len(swept) > 0 THEN Tail(swept) ELSE swept
    ELSE c

\* the entries the sweep of lines 39-40 deleted
Swept(c, m, t) == IF Len(c) >= m THEN Len(c) - Len(cleanup(c, t)) ELSE 0

\* the key lines 42-46 deleted, if any
Evicted(c, m, t) ==
    IF Len(c) >= m /\ Len(cleanup(c, t)) >= m /\ Len(cleanup(c, t)) > 0
    THEN <<Head(cleanup(c, t)).key>>
    ELSE <<>>

\* line 53: the entry a lookup serves
IsLive(e, t) == t - e.timestamp < TTL

Hit(c, k, t) == MapHas(c, k) /\ IsLive(MapGet(c, k), t)

\* lines 50-59: the lookup, and on a miss the call of fn and the store
Lookup(c, f, input, t) ==
    LET key == JSONstringify(input) IN
    IF Hit(c, key, t)
    THEN [cache |-> c, invoked |-> FALSE, thrown |-> FALSE, value |-> MapGet(c, key).value]
    ELSE LET out == Apply(f, input) IN
         IF out.thrown
         THEN [cache |-> c, invoked |-> TRUE, thrown |-> TRUE, value |-> Undefined]
         ELSE [cache |-> MapSet(c, key, out.value, t), invoked |-> TRUE,
               thrown |-> FALSE, value |-> out.value]

\* what the caller and the fn spy see of an operation, and what it deleted:
\* swept counts the entries a sweep (or clearCache) deleted, evicted holds the
\* key deleted as the oldest; turn alternates, so that an operation repeated
\* with the same outcome is still a step
Op(o, input, r, swept, evicted, turn) ==
    [op |-> o, input |-> input, invoked |-> r.invoked, thrown |-> r.thrown,
     value |-> r.value, swept |-> swept, evicted |-> evicted, turn |-> turn]

NoOp(o, swept, turn) ==
    Op(o, Undefined, [invoked |-> FALSE, thrown |-> FALSE, value |-> Undefined],
       swept, <<>>, turn)

\* memoized storing the result first and making room afterwards
memoizedStoresBeforeMakingRoom(input) ==
    LET r == Lookup(cache, fn, input, now) IN
    /\ cache' = MakeRoom(r.cache, maxSize, now)
    /\ last' = Op("call", input, r, Swept(r.cache, maxSize, now),
                  Evicted(r.cache, maxSize, now), 1 - last.turn)
    /\ passed' = passed \cup {JSONstringify(input)}
    /\ UNCHANGED <<fn, maxSize, now>>

\* memoized(input)
memoized(input) ==
    LET r == Lookup(MakeRoom(cache, maxSize, now), fn, input, now) IN
    /\ cache' = r.cache
    /\ last' = Op("call", input, r, Swept(cache, maxSize, now),
                  Evicted(cache, maxSize, now), 1 - last.turn)
    /\ passed' = passed \cup {JSONstringify(input)}
    /\ UNCHANGED <<fn, maxSize, now>>

\* clearCache deleting only what the lookup treats as expired
ClearedExpiredOnly(c, t) ==
    LET keep(e) == t - e.timestamp < TTL IN SelectSeq(c, keep)

\* line 62: cache.clear() (at time t)
Cleared(c, t) == <<>>

\* memoized.clearCache()
clearCache ==
    /\ cache' = Cleared(cache, now)
    /\ last' = NoOp("clearCache", Len(cache) - Len(Cleared(cache, now)), 1 - last.turn)
    /\ passed' = {}
    /\ UNCHANGED <<fn, maxSize, now>>

\* time passes (vi.advanceTimersByTime in the tests)
advanceTimersByTime ==
    /\ \E t \in Instants : t > now /\ now' = t
    /\ last' = NoOp("advance", 0, 1 - last.turn)
    /\ UNCHANGED <<fn, maxSize, cache, passed>>

----------------------------------------------------------------------------

(* The validators generateProductSchema imports (src/src/utils/validators.ts) *)

isValidCurrency(currency) == currency \in VALID_CURRENCIES

isValidAvailability(state) == state \in VALID_AVAILABILITY_STATES

isValidRating(rating) == NumberInRange(parseFloat(rating), 0, 5)

isValidReviewCount(count) == NumberAtLeast(parseInt(count), 0)

----------------------------------------------------------------------------
(* Calls of the validators with any argument, as a loosely typed call site  *)
(* makes them.                                                               *)

isValidUrl(url) == URL(url).ok

\* validators.ts lines 12-57 called with any value: new URL, parseFloat and
\* parseInt convert their argument to a string, Array.prototype.includes
\* compares with ===
Validate(validator, v) ==
    CASE validator = "isValidUrl" -> Returns(Bool(isValidUrl(JSToString(v))))
      [] validator = "isValidCurrency" ->
            Returns(Bool(v.kind = "string" /\ isValidCurrency(v.str)))
      [] validator = "isValidAvailability" ->
            Returns(Bool(v.kind = "string" /\ isValidAvailability(v.str)))
      [] validator = "isValidRating" -> Returns(Bool(isValidRating(JSToString(v))))
      [] validator = "isValidReviewCount" ->
            Returns(Bool(isValidReviewCount(JSToString(v))))

ValidatorNames == {"isValidUrl", "isValidCurrency", "isValidAvailability",
                   "isValidRating", "isValidReviewCount"}

\* the validators of part_018, each wrapped by memoizeValidator (lines 74-167)
MemoizedValidators == {"_isValidUrl", "_isValidCurrency", "_isValidAvailability",
                       "_isValidRating", "_isValidReviewCount"}

Strs(texts) == {Str(Chars(t)) : t \in texts}

\* arguments that are not strings: numbers, null, undefined, an object, arrays
NonStrings == {Num(123), Num(3), Null, Undefined, Obj(1, 1, <<"t">>),
               Arr(Chars("USD")), Arr(Chars("3"))}

UrlTexts ==
    {"https://example.com", "http://sub.example.com", "https://example.com/path?query=1",
     "https://example.com:8080", "https://example.com:443", "https://example.com/@user",
     "not-a-url", "ftp://example.com", "https:/example.com", "https:///path",
     "https://example..com", "https://-example.com", "https://example-.com",
     "https://example.com//path", "https://example.com/a?b=//c",
     "https://example.com:0", "https://example.com:65536",
     "https://localhost", "https://example.c", "https://example.123", "//example.com",
     "http://192.168.1.1", "http://256.256.256.256", "http://1.2.3",
     "http://192.168.1.1:8080", "http://192.168.1.1:0", "http://192.168.1.1//path",
     "http://[2001:0db8:85a3:0000:0000:8a2e:0370:7334]", "http://[::1]:0",
     "http://[::1]/a//b", "http://[::1", "mailto:a@b.c", ""}

CurrencyTexts ==
    {"USD", "EUR", "GBP", "JPY", "CAD", "AUD", "CNY", "CHF", "usd", "Usd", "UsD",
     "", "US", "U", "XX", "USDD", "INVALID", "12345"}

AvailabilityTexts ==
    {"https://schema.org/InStock", "https://schema.org/OutOfStock",
     "https://schema.org/PreOrder", "https://schema.org/Discontinued", "InStock",
     "https://schema.org/NotARealState", "https://fake.org/InStock",
     "https://schema.org/instock", ""}

RatingTexts ==
    {"0", "5", "3.5", "4.5", "3.75", "2.25", "0.0", "5.0", "3.0", "3.3", "5.1", "5.25",
     "-1", "6", "10", ".5", "4.", "+3.5", "03.5", "00", "3.50", "0.00", "4.555",
     "1.2.3", "3.5e0", " 3.5", "3.5 ", "abc", ""}

ReviewCountTexts ==
    {"0", "1", "50", "999", "1000000", "1234567890", "01", "0123", "00", "-1", "1.5",
     "3.5", "abc", "12345678901", " 1", "1e3", ""}

\* the arguments a validator is called with
ArgumentsOf(validator) ==
    NonStrings \cup
    Strs(CASE validator \in {"isValidUrl", "_isValidUrl"} -> UrlTexts
           [] validator \in {"isValidCurrency", "_isValidCurrency"} -> CurrencyTexts
           [] validator \in {"isValidAvailability", "_isValidAvailability"} ->
                 AvailabilityTexts
           [] validator \in {"isValidRating", "_isValidRating"} -> RatingTexts
           [] validator \in {"isValidReviewCount", "_isValidReviewCount"} ->
                 ReviewCountTexts)

NoCall == [validator |-> "none", input |-> Undefined, thrown |-> FALSE,
           value |-> Undefined]

CallIdle == call = NoCall

\* a call of a validator of validators.ts
validate(validator, v) ==
    LET r == Validate(validator, v) IN
    call' = [validator |-> validator, input |-> v, thrown |-> r.thrown,
             value |-> r.value]

----------------------------------------------------------------------------

(* generateProductSchema *)

\* config?.field ?? fallback: the fallback replaces undefined and null only
Coalesce(v, fallback) == IF v.kind \in {"undefined", "null"} THEN fallback ELSE v.str

DefaultCurrency == <<"U", "S", "D">>
DefaultAvailability == <<"h", "t", "t", "p", "s", ":", "/", "/", "s", "c", "h", "e", "m", "a", ".", "o", "r", "g", "/", "I", "n", "S", "t", "o", "c", "k">>
DefaultRatingValue == <<"5">>
DefaultReviewCount == <<"5", "0">>

NoSchema == [priceCurrency |-> <<>>, availability |-> <<>>,
             ratingValue |-> <<>>, reviewCount |-> <<>>]

\* the validated part of the returned schema: offers.priceCurrency,
\* offers.availability, aggregateRating.ratingValue, aggregateRating.reviewCount
Schema(c, a, r, n) == [priceCurrency |-> c, availability |-> a,
                       ratingValue |-> r, reviewCount |-> n]

Returned(schema, calls) ==
    [kind |-> "returned", error |-> "", value |-> <<>>, schema |-> schema, calls |-> calls]

Thrown(error, value, calls) ==
    [kind |-> "thrown", error |-> error, value |-> value, schema |-> NoSchema,
     calls |-> calls]

\* generateProductSchema validating the rating before the availability
ProductSchemaRatingFirst(cfg) ==
    LET currency == Coalesce(cfg.priceCurrency, DefaultCurrency)
        availability == Coalesce(cfg.availability, DefaultAvailability)
        ratingValue == Coalesce(cfg.ratingValue, DefaultRatingValue)
        reviewCount == Coalesce(cfg.reviewCount, DefaultReviewCount)
    IN  IF ~isValidCurrency(currency)
        THEN Thrown("InvalidCurrencyError", currency, <<"isValidCurrency">>)
        ELSE IF ~isValidRating(ratingValue)
        THEN Thrown("InvalidRatingError", ratingValue,
                    <<"isValidCurrency", "isValidRating">>)
        ELSE IF ~isValidAvailability(availability)
        THEN Thrown("InvalidAvailabilityError", availability,
                    <<"isValidCurrency", "isValidRating", "isValidAvailability">>)
        ELSE IF ~isValidReviewCount(reviewCount)
        THEN Thrown("InvalidReviewCountError", reviewCount,
                    <<"isValidCurrency", "isValidRating", "isValidAvailability",
                      "isValidReviewCount">>)
        ELSE Returned(Schema(currency, availability, ratingValue, reviewCount),
                      <<"isValidCurrency", "isValidRating", "isValidAvailability",
                        "isValidReviewCount">>)

\* generateProductSchema without the review-count validation of lines 132-134
ProductSchemaNoReviewCountCheck(cfg) ==
    LET currency == Coalesce(cfg.priceCurrency, DefaultCurrency)
        availability == Coalesce(cfg.availability, DefaultAvailability)
        ratingValue == Coalesce(cfg.ratingValue, DefaultRatingValue)
        reviewCount == Coalesce(cfg.reviewCount, DefaultReviewCount)
    IN  IF ~isValidCurrency(currency)
        THEN Thrown("InvalidCurrencyError", currency, <<"isValidCurrency">>)
        ELSE IF ~isValidAvailability(availability)
        THEN Thrown("InvalidAvailabilityError", availability,
                    <<"isValidCurrency", "isValidAvailability">>)
        ELSE IF ~isValidRating(ratingValue)
        THEN Thrown("InvalidRatingError", ratingValue,
                    <<"isValidCurrency", "isValidAvailability", "isValidRating">>)
        ELSE Returned(Schema(currency, availability, ratingValue, reviewCount),
                      <<"isValidCurrency", "isValidAvailability", "isValidRating",
                        "isValidReviewCount">>)

\* lines 115-163: what a call with config cfg gives its caller, and the
\* validators it called on the way
ProductSchema(cfg) ==
    LET currency == Coalesce(cfg.priceCurrency, DefaultCurrency)
        availability == Coalesce(cfg.availability, DefaultAvailability)
        ratingValue == Coalesce(cfg.ratingValue, DefaultRatingValue)
        reviewCount == Coalesce(cfg.reviewCount, DefaultReviewCount)
    IN  IF ~isValidCurrency(currency)
        THEN Thrown("InvalidCurrencyError", currency, <<"isValidCurrency">>)
        ELSE IF ~isValidAvailability(availability)
        THEN Thrown("InvalidAvailabilityError", availability,
                    <<"isValidCurrency", "isValidAvailability">>)
        ELSE IF ~isValidRating(ratingValue)
        THEN Thrown("InvalidRatingError", ratingValue,
                    <<"isValidCurrency", "isValidAvailability", "isValidRating">>)
        ELSE IF ~isValidReviewCount(reviewCount)
        THEN Thrown("InvalidReviewCountError", reviewCount,
                    <<"isValidCurrency", "isValidAvailability", "isValidRating",
                      "isValidReviewCount">>)
        ELSE Returned(Schema(currency, availability, ratingValue, reviewCount),
                      <<"isValidCurrency", "isValidAvailability", "isValidRating",
                        "isValidReviewCount">>)

\* the configs of the calls: each field absent, null or a string
CurrencyInputs == {Undefined, Null, Str(<<"U", "S", "D">>), Str(<<"E", "U", "R">>),
                   Str(<<"X", "X", "X">>), Str(<<"u", "s", "d">>)}
AvailabilityInputs == {Undefined, Str(<<"h", "t", "t", "p", "s", ":", "/", "/", "s", "c", "h", "e", "m", "a", ".", "o", "r", "g", "/", "O", "u", "t", "O", "f", "S", "t", "o", "c", "k">>),
                       Str(<<"I", "n", "S", "t", "o", "c", "k">>)}
RatingInputs == {Undefined, Str(<<"4", ".", "5">>), Str(<<"6">>), Str(<<"-", "1">>),
                 Str(<<"a", "b", "c">>)}
ReviewCountInputs == {Undefined, Str(<<"1", "0">>), Str(<<"-", "1">>),
                      Str(<<"a", "b", "c">>)}

Configs == [priceCurrency : CurrencyInputs, availability : AvailabilityInputs,
            ratingValue : RatingInputs, reviewCount : ReviewCountInputs]

\* generateProductSchema() with no config, or config of absent fields
NoConfig == [priceCurrency |-> Undefined, availability |-> Undefined,
             ratingValue |-> Undefined, reviewCount |-> Undefined]

generateProductSchema(cfg) ==
    LET r == ProductSchema(cfg) IN
    /\ config' = cfg
    /\ validated' = r.calls
    /\ result' = [r EXCEPT !.calls = <<>>]

ProductIdle ==
    /\ config = NoConfig
    /\ validated = <<>>
    /\ result = [kind |-> "none", error |-> "", value |-> <<>>, schema |-> NoSchema,
                 calls |-> <<>>]

----------------------------------------------------------------------------
(* generateOrganizationSchema (schemaGenerators.ts lines 49-89) *)

DefaultUrl == Chars("https://choji.store")
DefaultLogo == Chars("https://choji.store/logo/logo.svg")
DefaultSameAs ==
    <<Chars("https://www.facebook.com/chojistore"),
      Chars("https://www.instagram.com/chojistore"),
      Chars("https://twitter.com/chojistore")>>

\* config.socialMedia: a list of strings, or absent
SocialMedia(list) == [defined |-> TRUE, list |-> list]
NoSocialMedia == [defined |-> FALSE, list |-> <<>>]

\* config?.socialMedia ?? [...]
SameAs(socialMedia) == IF socialMedia.defined THEN socialMedia.list ELSE DefaultSameAs

\* the validated part of the Organization schema
OrganizationFields(url, logo, sameAs) == [url |-> url, logo |-> logo, sameAs |-> sameAs]

NoOrganization == OrganizationFields(<<>>, <<>>, <<>>)

\* what a call did: calls are the URLs passed to isValidUrl, in call order
OrganizationReturned(schema, calls) ==
    [kind |-> "returned", error |-> "", value |-> <<>>, schema |-> schema, calls |-> calls]

OrganizationThrown(value, calls) ==
    [kind |-> "thrown", error |-> "InvalidUrlError", value |-> value,
     schema |-> NoOrganization, calls |-> calls]

\* the number of leading entries of sameAs that isValidUrl accepts
RECURSIVE ValidPrefix(_)
ValidPrefix(sameAs) ==
    IF sameAs = <<>> \/ ~isValidUrl(Head(sameAs)) THEN 0
    ELSE 1 + ValidPrefix(Tail(sameAs))

\* schema.sameAs?.forEach(...): throws at the first entry that is not valid
ValidateSameAs(url, logo, sameAs, valid) ==
    IF valid = Len(sameAs)
    THEN OrganizationReturned(OrganizationFields(url, logo, sameAs),
                              <<url, logo>> \o sameAs)
    ELSE OrganizationThrown(sameAs[valid + 1],
                            <<url, logo>> \o SubSeq(sameAs, 1, valid + 1))

\* generateOrganizationSchema without the validation of logo
ValidateOrganizationNoLogoCheck(url, logo, sameAs) ==
    IF ~isValidUrl(url) THEN OrganizationThrown(url, <<url>>)
    ELSE ValidateSameAs(url, logo, sameAs, ValidPrefix(sameAs))

\* lines 53-87 for the url, logo and sameAs of lines 50-51 and 72-76
ValidateOrganization(url, logo, sameAs) ==
    IF ~isValidUrl(url) THEN OrganizationThrown(url, <<url>>)
    ELSE IF ~isValidUrl(logo) THEN OrganizationThrown(logo, <<url, logo>>)
    ELSE ValidateSameAs(url, logo, sameAs, ValidPrefix(sameAs))

OrganizationSchema(cfg) ==
    ValidateOrganization(Coalesce(cfg.url, DefaultUrl), Coalesce(cfg.logo, DefaultLogo),
                         SameAs(cfg.socialMedia))

generateOrganizationSchema(cfg) ==
    organization' = [config |-> cfg, result |-> OrganizationSchema(cfg)]

\* the URLs a config is given: absent, null, well formed, and texts that
\* new URL() rejects
OrganizationUrls ==
    {Undefined, Null} \cup Strs({"https://example.com", "not-a-url"})

SocialUrls == {Chars("https://www.facebook.com/chojistore"), Chars("invalid-url"),
               Chars("//example.com")}

SocialMediaInputs ==
    {NoSocialMedia, SocialMedia(<<>>)}
    \cup {SocialMedia(<<a>>) : a \in SocialUrls}
    \cup {SocialMedia(<<a, b>>) : a \in SocialUrls, b \in SocialUrls}

OrganizationConfigs ==
    [url : OrganizationUrls, logo : OrganizationUrls, socialMedia : SocialMediaInputs]

NoOrganizationConfig == [url |-> Undefined, logo |-> Undefined, socialMedia |-> NoSocialMedia]

OrganizationIdle ==
    organization = [config |-> NoOrganizationConfig,
                    result |-> [kind |-> "none", error |-> "", value |-> <<>>,
                                schema |-> NoOrganization, calls |-> <<>>]]

----------------------------------------------------------------------------
(* analytics.ts (lines 279-494): event tracking through window.umami.       *)
(* trackEvent and trackPageView are async functions: a call returns a      *)
(* promise at once and never throws; the promise settles when the function  *)
(* body ends, which waits for the promise of window.umami.track.  The      *)
(* helper trackers call trackEvent and drop its promise.                    *)

\* import.meta.env.VITE_UMAMI_WEBSITE_ID || '' with the variable unset
WEBSITE_ID == Str(<<>>)

\* what the global window is: not defined; {} ; { umami: null } ;
\* { umami: {} } ; { umami: { track } }
Windows == {"undefined", "noUmami", "nullUmami", "noTrack", "umami"}

\* isUmamiAvailable(); with window.umami null, typeof window.umami is 'object'
\* and reading window.umami.track throws a TypeError
isUmamiAvailable ==
    CASE window = "umami" -> "true"
      [] window = "nullUmami" -> "throws"
      [] OTHER -> "false"

\* what a call of window.umami.track does before it returns: it throws, or it
\* returns a value that the caller awaits
TrackBehaviours == {"throws", "returns"}

\* an object is the set of its <<key, value>> properties; undefined and {}
\* spread to no properties
NoParameters == {}

\* { ...parameters, websiteId: WEBSITE_ID }
WithWebsiteId(parameters) ==
    {p \in parameters : p[1] # "websiteId"} \cup {<<"websiteId", WEBSITE_ID>>}

\* the promise of one call of trackEvent or trackPageView: caller is the
\* exported function the application called, arg the event name or URL given,
\* track the state of this call's window.umami.track
Promise(caller, f, arg, state, reason, track) ==
    [caller |-> caller, fn |-> f, arg |-> arg, state |-> state, reason |-> reason,
     track |-> track]

\* console.error('Analytics Error:', error) of call number by
AnalyticsError(by, error) == [by |-> by, text |-> "Analytics Error:", error |-> error]

\* throw new Error(message) in an async function: the promise is rejected and
\* nothing else happens
Rejecting(caller, f, arg, message) ==
    /\ promises' = Append(promises, Promise(caller, f, arg, "rejected", message, "none"))
    /\ UNCHANGED <<tracked, console>>

\* try { if (isUmamiAvailable()) { await window.umami.track(name, data); } }
\* catch (error) { console.error('Analytics Error:', error); }
Tracking(caller, f, arg, name, data, sync) ==
    CASE isUmamiAvailable = "false" ->
            /\ promises' = Append(promises, Promise(caller, f, arg, "fulfilled", "", "none"))
            /\ UNCHANGED <<tracked, console>>
      [] isUmamiAvailable = "throws" ->
            /\ promises' = Append(promises, Promise(caller, f, arg, "fulfilled", "", "none"))
            /\ console' = Append(console, AnalyticsError(Len(promises) + 1, "TypeError"))
            /\ UNCHANGED tracked
      [] isUmamiAvailable = "true" /\ sync = "throws" ->
            /\ tracked' = Append(tracked, [by |-> Len(promises) + 1, name |-> name,
                                           data |-> data])
            /\ promises' = Append(promises, Promise(caller, f, arg, "fulfilled", "", "threw"))
            /\ console' = Append(console, AnalyticsError(Len(promises) + 1, "Tracking failed"))
      [] isUmamiAvailable = "true" /\ sync = "returns" ->
            /\ tracked' = Append(tracked, [by |-> Len(promises) + 1, name |-> name,
                                           data |-> data])
            /\ promises' = Append(promises, Promise(caller, f, arg, "pending", "", "pending"))
            /\ UNCHANGED console

\* trackEvent without its check of eventName
trackEventUnchecked(caller, eventName, parameters, sync) ==
    Tracking(caller, "trackEvent", eventName, eventName, WithWebsiteId(parameters), sync)

\* the body of trackEvent, run for caller
trackEvent(caller, eventName, parameters, sync) ==
    IF eventName = ""
    THEN Rejecting(caller, "trackEvent", eventName, "Event name is required")
    ELSE Tracking(caller, "trackEvent", eventName, eventName, WithWebsiteId(parameters),
                  sync)

\* referrer || ''
OrEmpty(referrer) ==
    IF referrer.kind = "string" /\ referrer.str # <<>> THEN referrer ELSE Str(<<>>)

\* the body of trackPageView
trackPageView(caller, url, referrer, sync) ==
    IF url = ""
    THEN Rejecting(caller, "trackPageView", url, "URL is required")
    ELSE Tracking(caller, "trackPageView", url, "pageview",
                  {<<"url", Str(Chars(url))>>, <<"referrer", OrEmpty(referrer)>>,
                   <<"websiteId", WEBSITE_ID>>}, sync)

\* what the most recent call of an exported function did when it returned:
\* promise is the number of the promise it returned, 0 when it returned undefined
Outcome(f, threw, promise) == [fn |-> f, threw |-> threw, promise |-> promise]

\* the application calls trackEvent(eventName, parameters)
callTrackEvent(eventName, parameters, sync) ==
    /\ trackEvent("trackEvent", eventName, parameters, sync)
    /\ returned' = Outcome("trackEvent", FALSE, Len(promises) + 1)
    /\ UNCHANGED window

\* the application calls trackPageView(url, referrer)
callTrackPageView(url, referrer, sync) ==
    /\ trackPageView("trackPageView", url, referrer, sync)
    /\ returned' = Outcome("trackPageView", FALSE, Len(promises) + 1)
    /\ UNCHANGED window

trackFormSubmission(formName, success, sync) ==
    /\ trackEvent("trackFormSubmission", "form_submit",
                  {<<"form_name", Str(Chars(formName))>>, <<"success", Bool(success)>>}, sync)
    /\ returned' = Outcome("trackFormSubmission", FALSE, 0)
    /\ UNCHANGED window

trackWhatsAppClick(source, sync) ==
    /\ trackEvent("trackWhatsAppClick", "whatsapp_click",
                  {<<"source", Str(Chars(source))>>}, sync)
    /\ returned' = Outcome("trackWhatsAppClick", FALSE, 0)
    /\ UNCHANGED window

trackProductView(productName, sync) ==
    /\ trackEvent("trackProductView", "view_item",
                  {<<"item_name", Str(Chars(productName))>>,
                   <<"item_category", Str(Chars("cat_food"))>>}, sync)
    /\ returned' = Outcome("trackProductView", FALSE, 0)
    /\ UNCHANGED window

\* errorParams of trackError: context is added only when truthy
errorParams(message, context) ==
    {<<"description", Str(Chars(message))>>, <<"fatal", Bool(FALSE)>>} \cup
    (IF context.kind = "string" /\ context.str # <<>>
     THEN {<<"context", context>>} ELSE {})

\* trackError(error, context) with error an Error whose message is message
trackError(message, context, sync) ==
    /\ trackEvent("trackError", "exception", errorParams(message, context), sync)
    /\ returned' = Outcome("trackError", FALSE, 0)
    /\ UNCHANGED window

\* the promise that window.umami.track returned to call i is rejected and the
\* rejection is not caught
trackRejectedUncaught(i) ==
    /\ i \in DOMAIN promises
    /\ promises[i].track = "pending"
    /\ promises' = [promises EXCEPT ![i].track = "rejected", ![i].state = "rejected",
                                    ![i].reason = "Tracking failed"]
    /\ UNCHANGED <<window, tracked, console, returned>>

\* the promise that window.umami.track returned to call i is rejected: the
\* await throws inside the try, the catch logs, the body ends
trackRejected(i) ==
    /\ i \in DOMAIN promises
    /\ promises[i].track = "pending"
    /\ promises' = [promises EXCEPT ![i].track = "rejected", ![i].state = "fulfilled"]
    /\ console' = Append(console, AnalyticsError(i, "Tracking failed"))
    /\ UNCHANGED <<window, tracked, returned>>

\* the value that window.umami.track returned to call i is fulfilled (or was
\* not a promise): the await completes and the body ends
trackFulfilled(i) ==
    /\ i \in DOMAIN promises
    /\ promises[i].track = "pending"
    /\ promises' = [promises EXCEPT ![i].track = "fulfilled", ![i].state = "fulfilled"]
    /\ UNCHANGED <<window, tracked, console, returned>>

\* the arguments of the tests
EventNames == {"", "test_event"}
Parameters == {NoParameters, {<<"key", Str(Chars("value"))>>}}
PageUrls == {"", "/test-page"}
Referrers == {Undefined, Str(<<>>), Str(Chars("https://example.com"))}
FormNames == {"order_form"}
Sources == {"header_cta"}
ProductNames == {"Premium Cat Food 250g"}
ErrorMessages == {"Boom"}
Contexts == {Undefined, Str(<<>>), Str(Chars("checkout_step_1"))}

NoReturn == Outcome("none", FALSE, 0)

AnalyticsIdle ==
    /\ window = "undefined"
    /\ tracked = <<>>
    /\ console = <<>>
    /\ promises = <<>>
    /\ returned = NoReturn

----------------------------------------------------------------------------
(* The service worker: sw.js and public/sw.js.                              *)
(* A fetch event is handled in asynchronous steps: caches.match resolves,   *)
(* then the network fetch resolves or rejects, then (sw.js only) the        *)
(* cache.put that the handler started without waiting for it takes place.   *)
(* Steps of different events interleave.                                    *)

CACHE_NAME == "choji-store-v1"

Scripts == {"sw.js", "public/sw.js"}

urlsToCache(s) ==
    IF s = "sw.js"
    THEN {"/", "/index.html", "/logo/logo.svg", "/logo/logo-footer.svg",
          "/images/choji.webp", "/favicon/favicon.svg", "/favicon/favicon.ico"}
    ELSE {"/", "/index.html", "/logo/logo.svg", "/logo/logo-footer.svg",
          "/images/choji.jpg", "/favicon/favicon.svg", "/favicon/favicon.ico"}

Response(status, type, body) == [status |-> status, type |-> type, body |-> body]

\* the JavaScript value undefined where a Response is expected
NoResponse == Response(0, "undefined", "")

Request(method, url) == [method |-> method, url |-> url]

\* the requests of the page: a pre-cached asset, a same-origin asset that is
\* not pre-cached, a cross-origin resource and a form post
FetchRequests ==
    {Request("GET", "/index.html"), Request("GET", "/assets/index.js"),
     Request("GET", "https://cloud.umami.is/script.js"), Request("POST", "/api/order")}

SameOrigin(url) == SubSeq(url, 1, 1) = "/"

\* what fetch(request) can resolve with: a same-origin response has type
\* 'basic'; a cross-origin one is 'cors' or, in no-cors mode, 'opaque' with
\* status 0.  NoResponse stands for a fetch that resolves with no response,
\* the case !response of the handler.
NetworkResponses(request) ==
    IF SameOrigin(request.url)
    THEN {Response(200, "basic", "network"), Response(404, "basic", "network"),
          Response(500, "basic", "network"), NoResponse}
    ELSE {Response(200, "cors", "network"), Response(0, "opaque", "network"), NoResponse}

\* an entry of Cache Storage: response stored for url in the cache named
\* name, by the install handler or by the fetch handler
Stored(name, url, response, by) ==
    [cache |-> name, url |-> url, response |-> response, by |-> by]

\* the caches of the origin in creation order: the one an earlier version of
\* the worker created and the current one
CacheNames == <<"choji-store-v0", CACHE_NAME>>

\* what Cache Storage can hold when this version of the worker is registered:
\* nothing, or the cache of the earlier version
EarlierCaches ==
    {{}, {Stored(CacheNames[1], "/index.html", Response(200, "basic", "earlier"),
                 "install")}}

\* cache.match(request) in the cache called name
CacheMatches(name, request) ==
    {entry \in caches : entry.cache = name /\ entry.url = request.url
                        /\ request.method = "GET"}

\* caches.match(request): the stored response for the request's URL in the
\* first cache, in creation order, that has one; undefined when there is
\* none; only GET requests match
CachesMatch(request) ==
    IF CacheMatches(CacheNames[1], request) # {}
    THEN (CHOOSE entry \in CacheMatches(CacheNames[1], request) : TRUE).response
    ELSE IF CacheMatches(CacheNames[2], request) # {}
    THEN (CHOOSE entry \in CacheMatches(CacheNames[2], request) : TRUE).response
    ELSE NoResponse

\* the install handler: cache.addAll(urlsToCache) stores all the responses or,
\* when one request fails, none, and then the installation fails
install(ok) ==
    /\ phase = "parsed"
    /\ phase' = IF ok THEN "installed" ELSE "redundant"
    /\ caches' = IF ok
                 THEN caches \cup {Stored(CACHE_NAME, url, Response(200, "basic", "installed"),
                                         "install") : url \in urlsToCache(script)}
                 ELSE caches
    /\ UNCHANGED <<script, events>>

\* the activate event: neither script registers a listener for it, so the
\* worker becomes active and nothing else happens
activate ==
    /\ phase = "installed"
    /\ phase' = "activated"
    /\ UNCHANGED <<script, caches, events>>

\* a fetch event is dispatched: the handler calls caches.match(event.request).
\* held is the answer Cache Storage would give at this moment.
FetchEvent(request) ==
    [request |-> request, held |-> CachesMatch(request), stage |-> "matching",
     matched |-> NoResponse, fetches |-> 0, network |-> NoResponse,
     response |-> NoResponse, from |-> "none", put |-> "none", logged |-> FALSE]

fetchEvent(request) ==
    /\ phase = "activated"
    /\ events' = Append(events, FetchEvent(request))
    /\ UNCHANGED <<script, phase, caches>>

\* a handler that fetches from the network whatever caches.match gave
matchResolvedNetworkFirst(e) ==
    /\ e \in DOMAIN events
    /\ events[e].stage = "matching"
    /\ events' = [events EXCEPT ![e].matched = CachesMatch(events[e].request),
                                ![e].stage = "fetching",
                                ![e].fetches = events[e].fetches + 1]
    /\ UNCHANGED <<script, phase, caches>>

\* caches.match resolves: the cached response, if any, is the answer,
\* otherwise fetch is called (sw.js:93-103, public/sw.js:22)
matchResolved(e) ==
    /\ e \in DOMAIN events
    /\ events[e].stage = "matching"
    /\ events' =
          IF CachesMatch(events[e].request) # NoResponse
          THEN [events EXCEPT ![e].matched = CachesMatch(events[e].request),
                              ![e].stage = "responded",
                              ![e].response = CachesMatch(events[e].request),
                              ![e].from = "cache"]
          ELSE [events EXCEPT ![e].stage = "fetching",
                              ![e].fetches = events[e].fetches + 1]
    /\ UNCHANGED <<script, phase, caches>>

\* sw.js:105-109
NotCacheable(response) ==
    response = NoResponse \/ response.status # 200 \/ response.type # "basic"

\* a handler that stores every network response
networkRespondedStoreAll(e, response) ==
    /\ e \in DOMAIN events
    /\ events[e].stage = "fetching"
    /\ response \in NetworkResponses(events[e].request)
    /\ events' = [events EXCEPT ![e].network = response,
                                ![e].stage = "responded",
                                ![e].response = response,
                                ![e].from = IF response = NoResponse THEN "none"
                                            ELSE "network",
                                ![e].put = IF script = "sw.js" THEN "pending" ELSE "none"]
    /\ UNCHANGED <<script, phase, caches>>

\* fetch resolves with response: the handler answers with it; sw.js also
\* starts caches.open(CACHE_NAME).then(cache.put) for a cacheable one
networkResponded(e, response) ==
    /\ e \in DOMAIN events
    /\ events[e].stage = "fetching"
    /\ response \in NetworkResponses(events[e].request)
    /\ events' = [events EXCEPT ![e].network = response,
                                ![e].stage = "responded",
                                ![e].response = response,
                                ![e].from = IF response = NoResponse THEN "none"
                                            ELSE "network",
                                ![e].put = IF script = "sw.js" /\ ~NotCacheable(response)
                                           THEN "pending" ELSE "none"]
    /\ UNCHANGED <<script, phase, caches>>

\* fetch rejects: sw.js logs 'Fetch failed:' and answers with undefined;
\* public/sw.js has no catch and its respondWith promise is rejected
networkFailed(e) ==
    /\ e \in DOMAIN events
    /\ events[e].stage = "fetching"
    /\ events' = [events EXCEPT ![e].stage = IF script = "sw.js" THEN "responded"
                                             ELSE "failed",
                                ![e].logged = script = "sw.js"]
    /\ UNCHANGED <<script, phase, caches>>

\* cache.put(event.request, responseToCache) takes place: the entry for the
\* URL is replaced; for a request that is not a GET, put rejects
cachePut(e) ==
    /\ e \in DOMAIN events
    /\ events[e].put = "pending"
    /\ events' = [events EXCEPT ![e].put = IF events[e].request.method = "GET"
                                           THEN "done" ELSE "failed"]
    /\ caches' = IF events[e].request.method = "GET"
                 THEN {entry \in caches : ~(entry.cache = CACHE_NAME
                                            /\ entry.url = events[e].request.url)}
                      \cup {Stored(CACHE_NAME, events[e].request.url, events[e].network,
                                  "fetch")}
                 ELSE caches
    /\ UNCHANGED <<script, phase>>

ServiceWorkerIdle ==
    /\ script = "sw.js"
    /\ phase = "parsed"
    /\ caches = {}
    /\ events = <<>>

----------------------------------------------------------------------------
(* cookieConsent.ts (lines 236-715): the consent callbacks and the Google   *)
(* consent-mode updates they send through gtag.                             *)

\* a consent-mode update or state: one value per key, "" for a key that the
\* update does not carry or that was never set
ConsentParams(analytics, ad) ==
    [analytics_storage |-> analytics, ad_storage |-> ad, ad_user_data |-> ad,
     ad_personalization |-> ad]

\* gtag('consent', 'update', params): the keys that params carries replace
\* the state's
ConsentUpdate(state, params) ==
    [k \in DOMAIN state |-> IF params[k] # "" THEN params[k] ELSE state[k]]

\* a CookieValue: its categories array, which may be missing
Cookie(categories) == [defined |-> TRUE, categories |-> categories]
CookieWithoutCategories == [defined |-> FALSE, categories |-> <<>>]

\* cookie.categories || []
acceptedCategories(cookie) == IF cookie.defined THEN cookie.categories ELSE <<>>

\* Array.prototype.includes
ArrayIncludes(list, x) == \E i \in 1..Len(list) : list[i] = x

\* enableAnalytics / disableAnalytics (lines 446-492): the update, when
\* gtag is defined
AnalyticsUpdates(granted) ==
    IF gtagDefined
    THEN <<ConsentParams(IF granted THEN "granted" ELSE "denied", "")>>
    ELSE <<>>

\* enableMarketing / disableMarketing (lines 520-570)
MarketingUpdates(granted) ==
    IF gtagDefined
    THEN <<ConsentParams("", IF granted THEN "granted" ELSE "denied")>>
    ELSE <<>>

RECURSIVE ApplyUpdates(_, _)
ApplyUpdates(state, updates) ==
    IF updates = <<>> THEN state
    ELSE ApplyUpdates(ConsentUpdate(state, Head(updates)), Tail(updates))

\* a callback ran handleConsentChange: the updates it sent, in order
Handled(callback, cookie, updates) ==
    /\ consentEvent' = [callback |-> callback, cookie |-> cookie, gtag |-> gtagDefined,
                        updates |-> updates]
    /\ consentMode' = ApplyUpdates(consentMode, updates)
    /\ UNCHANGED gtagDefined

\* handleConsentChange of lines 88-104, which reads categories.analytics and
\* categories.marketing, properties that an array does not have
handleConsentChangeEarlier(callback, cookie) ==
    Handled(callback, cookie, AnalyticsUpdates(FALSE) \o MarketingUpdates(FALSE))

\* handleConsentChange (lines 402-419), called by callback
handleConsentChange(callback, cookie) ==
    Handled(callback, cookie,
            AnalyticsUpdates(ArrayIncludes(acceptedCategories(cookie), "analytics"))
            \o MarketingUpdates(ArrayIncludes(acceptedCategories(cookie), "marketing")))

\* the callbacks of CookieConsent.run (lines 361-372): onFirstConsent runs for
\* the first choice only, onConsent and onChange once a choice exists
onFirstConsent(cookie) ==
    consentEvent.callback = "none" /\ handleConsentChange("onFirstConsent", cookie)

onConsent(cookie) ==
    consentEvent.callback # "none" /\ handleConsentChange("onConsent", cookie)

onChange(cookie) ==
    consentEvent.callback # "none" /\ handleConsentChange("onChange", cookie)

\* the Google tag script is loaded and defines gtag
gtagLoaded ==
    /\ ~gtagDefined
    /\ gtagDefined' = TRUE
    /\ UNCHANGED <<consentMode, consentEvent>>

\* the cookies the consent library passes
Cookies ==
    {CookieWithoutCategories, Cookie(<<>>), Cookie(<<"necessary">>),
     Cookie(<<"necessary", "analytics">>), Cookie(<<"necessary", "marketing">>),
     Cookie(<<"necessary", "analytics", "marketing">>),
     Cookie(<<"necessary", "marketing", "analytics">>), Cookie(<<"analytics">>),
     Cookie(<<"marketing">>), Cookie(<<"necessary", "functional">>),
     Cookie(<<"analytics", "marketing">>), Cookie(<<"functional", "analytics">>)}

NoConsentEvent ==
    [callback |-> "none", cookie |-> CookieWithoutCategories, gtag |-> FALSE,
     updates |-> <<>>]

ConsentIdle ==
    /\ gtagDefined = FALSE
    /\ consentMode = ConsentParams("", "")
    /\ consentEvent = NoConsentEvent

----------------------------------------------------------------------------
(* App.tsx: the order form and handlePlaceOrder.  The file holds the form   *)
(* twice: lines 10-65 with the customer's WhatsApp number, lines 546-622    *)
(* with the fixed business number.                                          *)

AppVersions == {"customer", "business"}

Quantities == {Chars("250g"), Chars("500g"), Chars("1kg")}

businessNumber == Chars("923152967579")

IsDigit(c) == c \in DigitSet

\* number.replace(/\D/g, '')
RemoveNonDigits(number) == SelectSeq(number, IsDigit)

\* validatePhoneNumber (lines 29-32)
validatePhoneNumber(number) ==
    Len(RemoveNonDigits(number)) >= 10 /\ Len(RemoveNonDigits(number)) <= 15

IsTelChar(c) == c \in DigitSet \/ IsWhiteSpace(c) \/ c = "+"

\* the input's onChange (lines 321-328): value.replace(/[^\d\s+]/g, '').slice(0, 15)
onChangeValue(value) ==
    SubSeq(SelectSeq(value, IsTelChar), 1,
           IF Len(SelectSeq(value, IsTelChar)) < 15 THEN Len(SelectSeq(value, IsTelChar))
           ELSE 15)

\* the printable ASCII characters in code order, in runs that leave out the
\* double quote (code 34), the backslash (code 92) and the grave accent
\* (code 96)
AsciiFrom32 == Chars(" !")
AsciiFrom35 == Chars("#$%&'()*+,-./0123456789:;<=>?@ABCDEFGHIJKLMNOPQRSTUVWXYZ[")
AsciiFrom93 == Chars("]^_")
AsciiFrom97 == Chars("abcdefghijklmnopqrstuvwxyz{|}~")

Ascii == AsciiFrom32 \o AsciiFrom35 \o AsciiFrom93 \o AsciiFrom97

PositionIn(run, c) == CHOOSE i \in 1..Len(run) : run[i] = c

CharCode(c) ==
    IF \E i \in 1..Len(AsciiFrom32) : AsciiFrom32[i] = c THEN 31 + PositionIn(AsciiFrom32, c)
    ELSE IF \E i \in 1..Len(AsciiFrom35) : AsciiFrom35[i] = c
    THEN 34 + PositionIn(AsciiFrom35, c)
    ELSE IF \E i \in 1..Len(AsciiFrom93) : AsciiFrom93[i] = c
    THEN 92 + PositionIn(AsciiFrom93, c)
    ELSE 96 + PositionIn(AsciiFrom97, c)

\* the characters encodeURIComponent leaves alone
UriUnreserved ==
    {Ascii[i] : i \in 1..Len(Ascii)}
    \cap ({UpperLetters[i] : i \in 1..26} \cup {LowerLetters[i] : i \in 1..26}
          \cup DigitSet \cup {"-", "_", ".", "!", "~", "*", "'", "(", ")"})

UpperHexDigits == Chars("0123456789ABCDEF")

\* %XX of an ASCII character
PercentEncoded(c) ==
    <<"%", UpperHexDigits[(CharCode(c) \div 16) + 1], UpperHexDigits[(CharCode(c) % 16) + 1]>>

\* encodeURIComponent of a text of printable ASCII characters
RECURSIVE encodeURIComponent(_)
encodeURIComponent(s) ==
    IF s = <<>> THEN <<>>
    ELSE (IF Head(s) \in UriUnreserved THEN <<Head(s)>> ELSE PercentEncoded(Head(s)))
         \o encodeURIComponent(Tail(s))

\* `Hi, I'd like to order ${selectedQuantity} of Choji's homemade cat food.`
OrderMessage(quantity) ==
    Chars("Hi, I'd like to order ") \o quantity \o Chars(" of Choji's homemade cat food.")

\* `https://wa.me/${number}?text=${encodeURIComponent(message)}`
WhatsappUrl(number, message) ==
    Chars("https://wa.me/") \o number \o Chars("?text=") \o encodeURIComponent(message)

\* what a run of handlePlaceOrder did: the setIsLoading calls, the alerts and
\* the window.open calls in order, and whether it threw
Submission(loading, alerts, opened, threw) ==
    [setIsLoading |-> loading, alerts |-> alerts, opened |-> opened, threw |-> threw]

NoSubmission == Submission(<<>>, <<>>, <<>>, FALSE)

\* try { window.open(whatsappUrl, '_blank') } catch { alert(...) }
\* finally { setIsLoading(false) }: lines 58-64 and 615-621
OpenWhatsapp(url, openThrows) ==
    Submission(<<TRUE, FALSE>>,
               IF openThrows THEN <<"Failed to open WhatsApp. Please try again.">>
               ELSE <<>>,
               <<url>>, FALSE)

\* handlePlaceOrder of lines 39-65 without the checks of lines 43-53
PlaceCustomerOrderUnchecked(number, quantity, openThrows) ==
    OpenWhatsapp(WhatsappUrl(RemoveNonDigits(number), OrderMessage(quantity)), openThrows)

\* handlePlaceOrder of lines 39-65
PlaceCustomerOrder(number, quantity, openThrows) ==
    IF number = <<>>
    THEN Submission(<<TRUE, FALSE>>, <<"Please enter your WhatsApp number">>, <<>>, FALSE)
    ELSE IF ~validatePhoneNumber(number)
    THEN Submission(<<TRUE, FALSE>>,
                    <<"Please enter a valid phone number (10-15 digits)">>, <<>>, FALSE)
    ELSE OpenWhatsapp(WhatsappUrl(RemoveNonDigits(number), OrderMessage(quantity)),
                      openThrows)

\* handlePlaceOrder of lines 605-622 whose catch rethrows and which has no
\* finally
PlaceBusinessOrderUncaught(quantity, openThrows) ==
    Submission(IF openThrows THEN <<TRUE>> ELSE <<TRUE, FALSE>>, <<>>,
               <<WhatsappUrl(businessNumber, OrderMessage(quantity))>>, openThrows)

\* handlePlaceOrder of lines 605-622
PlaceBusinessOrder(quantity, openThrows) ==
    OpenWhatsapp(WhatsappUrl(businessNumber, OrderMessage(quantity)), openThrows)

\* the form is submitted; window.open throws or not
handlePlaceOrder(openThrows) ==
    /\ submission' = IF appVersion = "customer"
                     THEN PlaceCustomerOrder(whatsappNumber, selectedQuantity, openThrows)
                     ELSE PlaceBusinessOrder(selectedQuantity, openThrows)
    /\ isLoading' = submission'.setIsLoading[Len(submission'.setIsLoading)]
    /\ UNCHANGED <<appVersion, selectedQuantity, whatsappNumber>>

\* a quantity button is clicked
setSelectedQuantity(quantity) ==
    /\ selectedQuantity' = quantity
    /\ UNCHANGED <<appVersion, whatsappNumber, isLoading, submission>>

\* the WhatsApp number input changes to value
setWhatsappNumber(value) ==
    /\ appVersion = "customer"
    /\ whatsappNumber' = onChangeValue(value)
    /\ UNCHANGED <<appVersion, selectedQuantity, isLoading, submission>>

\* what the user types or pastes into the input
TypedNumbers ==
    {Chars(t) : t \in {"", "12345", "1234567890", "+92 315 2967579", "123456789012345",
                       "1234567890123456", "+1 (555) 123-4567", "abc", "          ",
                       "+ 12 34 56 78 9", "+1234567890"}}

OrderFormIdle ==
    /\ appVersion = "customer"
    /\ selectedQuantity = Chars("250g")
    /\ whatsappNumber = <<>>
    /\ isLoading = FALSE
    /\ submission = NoSubmission

----------------------------------------------------------------------------
(* Several wrappers: each call of memoizeValidator runs line 25 and its     *)
(* wrapper keeps the Map it created. maps is the heap of Map objects and a  *)
(* wrapper refers to its Map by its index.                                  *)

WrapperNames == {"isValidUrl", "isValidCurrency"}

\* part_018:74 and :92: the function each exported validator wraps
Wrapped(w) == IF w = "isValidUrl" THEN "_isValidUrl" ELSE "_isValidCurrency"

\* what memoized and clearCache close over: fn, maxSize and cache
Closure(f, m, ref) == [fn |-> f, maxSize |-> m, cache |-> ref]

\* a cache kept at module level, shared by all wrappers
NewMapShared(heap) ==
    IF heap = <<>> THEN [heap |-> <<(<<>>)>>, ref |-> 1] ELSE [heap |-> heap, ref |-> 1]

\* line 25: const cache = new Map()
NewMap(heap) == [heap |-> Append(heap, <<>>), ref |-> Len(heap) + 1]

WrapperCall(w, input, thrown, value) ==
    [validator |-> w, input |-> input, thrown |-> thrown, value |-> value]

\* export const w = memoizeValidator(fn, m)
memoizeValidator(w, m) ==
    /\ w \notin DOMAIN wrappers
    /\ maps' = NewMap(maps).heap
    /\ wrappers' = [x \in DOMAIN wrappers \cup {w} |->
                       IF x = w THEN Closure(Wrapped(w), m, NewMap(maps).ref)
                       ELSE wrappers[x]]
    /\ call' = WrapperCall(w, Undefined, FALSE, Undefined)
    /\ UNCHANGED now

\* w(input)
callWrapper(w, input) ==
    /\ w \in DOMAIN wrappers
    /\ LET c == wrappers[w]
           r == Lookup(MakeRoom(maps[c.cache], c.maxSize, now), c.fn, input, now)
       IN  /\ maps' = [maps EXCEPT ![c.cache] = r.cache]
           /\ call' = WrapperCall(w, input, r.thrown, r.value)
    /\ UNCHANGED <<wrappers, now>>

\* w.clearCache()
clearWrapper(w) ==
    /\ w \in DOMAIN wrappers
    /\ maps' = [maps EXCEPT ![wrappers[w].cache] = Cleared(@, now)]
    /\ call' = WrapperCall(w, Undefined, FALSE, Undefined)
    /\ UNCHANGED <<wrappers, now>>

\* the instants at which the clock is read while the wrappers are used
WrapperInstants == {0, 4 * 60 * 1000, TTL}

\* time passes
wrapperClock ==
    /\ \E t \in WrapperInstants : t > now /\ now' = t
    /\ UNCHANGED <<maps, wrappers, call>>

\* the arguments the wrappers are called with: the same for both
WrapperInputs == Strs({"USD", "https://example.com"}) \cup {Null}

WrapperMaxSizes == {1, DefaultMaxSize}

WrappersIdle == maps = <<>> /\ wrappers = <<>>

----------------------------------------------------------------------------
(* schemaCache: the one SchemaCache instance of schemaCache.ts. Its Map is  *)
(* a sequence of entries [key, data, timestamp] in insertion order.         *)

SchemaCacheTTL == 5 * 60 * 1000

CacheEntry(key, data, t) == [key |-> key, data |-> data, timestamp |-> t]

\* get's return value when nothing valid is cached
NoData == "undefined"

\* lines 33-35: `${prefix}:${config ? JSON.stringify(config) : 'default'}`
generateKey(prefix, cfg) ==
    Chars(prefix) \o <<":">>
        \o (IF cfg.kind \in {"undefined", "null"} THEN Chars("default")
            ELSE JSONstringify(cfg))

\* isValid counting an entry of age TTL as valid
isValidAtTTL(entry, t) == t - entry.timestamp <= SchemaCacheTTL

\* lines 40-42, with Date.now() = t
isValid(entry, t) == t - entry.timestamp < SchemaCacheTTL

SchemaHas(c, key) == \E i \in 1..Len(c) : c[i].key = key

SchemaEntry(c, key) == c[CHOOSE i \in 1..Len(c) : c[i].key = key]

\* Map.prototype.delete
SchemaDelete(c, key) == LET other(e) == e.key # key IN SelectSeq(c, other)

\* lines 47-61: the data get returns and the Map it leaves
SchemaGet(c, key, t) ==
    IF SchemaHas(c, key) /\ isValid(SchemaEntry(c, key), t)
    THEN [data |-> SchemaEntry(c, key).data, cache |-> c]
    ELSE IF SchemaHas(c, key)
    THEN [data |-> NoData, cache |-> SchemaDelete(c, key)]
    ELSE [data |-> NoData, cache |-> c]

\* lines 66-73: Map.prototype.set keeps the place of an existing key
SchemaSet(c, key, data, t) ==
    IF SchemaHas(c, key)
    THEN [i \in 1..Len(c) |-> IF c[i].key = key THEN CacheEntry(key, data, t) ELSE c[i]]
    ELSE Append(c, CacheEntry(key, data, t))

\* lines 85-91
SchemaCleanup(c, t) == LET valid(e) == isValid(e, t) IN SelectSeq(c, valid)

\* the most recent call on schemaCache: the key it was about, the data it
\* was given or returned, and how many entries it deleted
SchemaOp(op, key, data, deleted) ==
    [op |-> op, key |-> key, data |-> data, deleted |-> deleted]

\* schemaCache.get(prefix, config)
get(prefix, cfg) ==
    LET r == SchemaGet(schemaCache, generateKey(prefix, cfg), now) IN
    /\ schemaCache' = r.cache
    /\ schemaOp' = SchemaOp("get", generateKey(prefix, cfg), r.data,
                            Len(schemaCache) - Len(r.cache))
    /\ UNCHANGED now

\* schemaCache.set(prefix, data, config)
set(prefix, data, cfg) ==
    /\ schemaCache' = SchemaSet(schemaCache, generateKey(prefix, cfg), data, now)
    /\ schemaOp' = SchemaOp("set", generateKey(prefix, cfg), data, 0)
    /\ UNCHANGED now

\* schemaCache.clear()
clear ==
    /\ schemaCache' = <<>>
    /\ schemaOp' = SchemaOp("clear", <<>>, NoData, Len(schemaCache))
    /\ UNCHANGED now

\* schemaCache.cleanup()
cleanupSchemaCache ==
    /\ schemaCache' = SchemaCleanup(schemaCache, now)
    /\ schemaOp' = SchemaOp("cleanup", <<>>, NoData,
                            Len(schemaCache) - Len(SchemaCleanup(schemaCache, now)))
    /\ UNCHANGED now

\* time passes
schemaClock ==
    /\ \E t \in Instants : t > now /\ now' = t
    /\ UNCHANGED <<schemaCache, schemaOp>>

\* the prefixes and configs of the calls, and the schemas stored
SchemaArguments ==
    {<<"organization", Undefined>>, <<"organization", Null>>,
     <<"product", Obj(1, 1, <<"t">>)>>, <<"product", Obj(2, 1, <<"t">>)>>}

SchemaData == {"schema 1", "schema 2"}

NoSchemaOp == SchemaOp("new", <<>>, NoData, 0)

SchemaCacheIdle == schemaCache = <<>> /\ schemaOp = NoSchemaOp

----------------------------------------------------------------------------
(* The rest of the application at rest *)

AppIdle == OrganizationIdle /\ ConsentIdle /\ OrderFormIdle /\ WrappersIdle /\ SchemaCacheIdle

----------------------------------------------------------------------------
(* The wrapper's life: memoizeValidator(fn, maxSize) at time 0, then calls,   *)
(* clearCache and the passing of time in any order.                          *)

MemoInit ==
    /\ fn \in Fns
    /\ maxSize \in MaxSizes
    /\ cache = <<>>
    /\ now = 0
    /\ last = NoOp("memoizeValidator", 0, 0)
    /\ passed = {}
    /\ ProductIdle
    /\ CallIdle
    /\ AnalyticsIdle
    /\ ServiceWorkerIdle
    /\ AppIdle

MemoNext ==
    \/ \E input \in InputsOf(fn) :
          memoized(input) /\ UNCHANGED <<productVars, validatorVars,
                      analyticsVars, serviceWorkerVars, appVars>>
    \/ clearCache /\ UNCHANGED <<productVars, validatorVars,
                      analyticsVars, serviceWorkerVars, appVars>>
    \/ advanceTimersByTime /\ UNCHANGED <<productVars, validatorVars,
                      analyticsVars, serviceWorkerVars, appVars>>

MemoSpec == MemoInit /\ [][MemoNext]_vars

----------------------------------------------------------------------------
(* Schema generation: calls of generateProductSchema with any config.       *)

MemoIdle ==
    /\ fn = "double"
    /\ maxSize = DefaultMaxSize
    /\ cache = <<>>
    /\ now = 0
    /\ last = NoOp("memoizeValidator", 0, 0)
    /\ passed = {}

ProductInit == MemoIdle /\ ProductIdle /\ CallIdle /\ AnalyticsIdle /\ ServiceWorkerIdle
    /\ AppIdle

ProductNext ==
    \E cfg \in Configs : generateProductSchema(cfg) /\ UNCHANGED <<memoVars, validatorVars,
                      analyticsVars, serviceWorkerVars, appVars>>

ProductSpec == ProductInit /\ [][ProductNext]_vars

----------------------------------------------------------------------------
(* Validation: calls of the validators of validators.ts with any argument.  *)

ValidatorInit == MemoIdle /\ ProductIdle /\ CallIdle /\ AnalyticsIdle /\ ServiceWorkerIdle
    /\ AppIdle

ValidatorNext ==
    \E validator \in ValidatorNames : \E v \in ArgumentsOf(validator) :
        validate(validator, v) /\ UNCHANGED <<memoVars, productVars,
                      analyticsVars, serviceWorkerVars, appVars>>

ValidatorSpec == ValidatorInit /\ [][ValidatorNext]_vars

----------------------------------------------------------------------------
(* Memoized validation: one of the exported validators of part_018, which   *)
(* is memoizeValidator(_isValid...) with the default maxSize, called with   *)
(* any argument; clearCache empties its cache.                               *)

MemoValidatorInit ==
    /\ fn \in MemoizedValidators
    /\ maxSize = DefaultMaxSize
    /\ cache = <<>>
    /\ now = 0
    /\ last = NoOp("memoizeValidator", 0, 0)
    /\ passed = {}
    /\ ProductIdle
    /\ CallIdle
    /\ AnalyticsIdle
    /\ ServiceWorkerIdle
    /\ AppIdle

MemoValidatorNext ==
    \/ \E input \in ArgumentsOf(fn) :
          /\ Cardinality(passed \cup {JSONstringify(input)}) <= MaxDistinctArgs
          /\ memoized(input)
          /\ UNCHANGED <<productVars, validatorVars,
                      analyticsVars, serviceWorkerVars, appVars>>
    \/ clearCache /\ UNCHANGED <<productVars, validatorVars,
                      analyticsVars, serviceWorkerVars, appVars>>

MemoValidatorSpec == MemoValidatorInit /\ [][MemoValidatorNext]_vars

----------------------------------------------------------------------------
(* Tracking: the application calls the exported tracking functions in any   *)
(* order, without waiting for their promises; the promises returned by     *)
(* window.umami.track settle at any later time, fulfilled or rejected.      *)

AnalyticsInit ==
    /\ MemoIdle /\ ProductIdle /\ CallIdle /\ ServiceWorkerIdle /\ AppIdle
    /\ window \in Windows
    /\ tracked = <<>>
    /\ console = <<>>
    /\ promises = <<>>
    /\ returned = NoReturn

AnalyticsCall ==
    \E sync \in TrackBehaviours :
        \/ \E eventName \in EventNames, parameters \in Parameters :
              callTrackEvent(eventName, parameters, sync)
        \/ \E url \in PageUrls, referrer \in Referrers :
              callTrackPageView(url, referrer, sync)
        \/ \E formName \in FormNames, success \in BOOLEAN :
              trackFormSubmission(formName, success, sync)
        \/ \E source \in Sources : trackWhatsAppClick(source, sync)
        \/ \E productName \in ProductNames : trackProductView(productName, sync)
        \/ \E message \in ErrorMessages, context \in Contexts :
              trackError(message, context, sync)

AnalyticsNext ==
    /\ \/ Len(promises) < MaxTrackCalls /\ AnalyticsCall
       \/ \E i \in DOMAIN promises : trackFulfilled(i)
       \/ \E i \in DOMAIN promises : trackRejected(i)
    /\ UNCHANGED <<memoVars, productVars, validatorVars, serviceWorkerVars, appVars>>

AnalyticsSpec == AnalyticsInit /\ [][AnalyticsNext]_vars

----------------------------------------------------------------------------
(* The service worker's life: one of the two scripts is registered, its    *)
(* install handler runs, it is activated, and the activated worker         *)
(* receives fetch events.  Cache Storage may hold the cache of an earlier   *)
(* version of the worker.                                                   *)

ServiceWorkerInit ==
    /\ MemoIdle /\ ProductIdle /\ CallIdle /\ AnalyticsIdle /\ AppIdle
    /\ script \in Scripts
    /\ phase = "parsed"
    /\ caches \in EarlierCaches
    /\ events = <<>>

ServiceWorkerNext ==
    /\ \/ \E ok \in BOOLEAN : install(ok)
       \/ activate
       \/ \E request \in FetchRequests :
             Len(events) < MaxFetchEvents /\ fetchEvent(request)
       \/ \E e \in DOMAIN events : matchResolved(e)
       \/ \E e \in DOMAIN events :
             \E response \in NetworkResponses(events[e].request) :
                networkResponded(e, response)
       \/ \E e \in DOMAIN events : networkFailed(e)
       \/ \E e \in DOMAIN events : cachePut(e)
    /\ UNCHANGED <<memoVars, productVars, validatorVars, analyticsVars, appVars>>

ServiceWorkerSpec == ServiceWorkerInit /\ [][ServiceWorkerNext]_vars

----------------------------------------------------------------------------
(* Organization schema generation: calls of generateOrganizationSchema     *)
(* with any config.                                                         *)

OrganizationInit ==
    /\ MemoIdle /\ ProductIdle /\ CallIdle /\ AnalyticsIdle /\ ServiceWorkerIdle
    /\ OrganizationIdle /\ ConsentIdle /\ OrderFormIdle
    /\ WrappersIdle /\ SchemaCacheIdle

OrganizationNext ==
    /\ \E cfg \in OrganizationConfigs : generateOrganizationSchema(cfg)
    /\ UNCHANGED <<memoVars, productVars, validatorVars, analyticsVars, serviceWorkerVars,
                   consentVars, orderVars, wrapperVars, schemaCacheVars>>

OrganizationSpec == OrganizationInit /\ [][OrganizationNext]_vars

----------------------------------------------------------------------------
(* Cookie consent: the consent library runs its callbacks with any cookie;  *)
(* the Google tag may already be loaded, or is loaded at any time.          *)

ConsentInit ==
    /\ MemoIdle /\ ProductIdle /\ CallIdle /\ AnalyticsIdle /\ ServiceWorkerIdle
    /\ OrganizationIdle /\ OrderFormIdle /\ WrappersIdle /\ SchemaCacheIdle
    /\ gtagDefined \in BOOLEAN
    /\ consentMode = ConsentParams("", "")
    /\ consentEvent = NoConsentEvent

ConsentNext ==
    /\ \/ \E cookie \in Cookies : onFirstConsent(cookie)
       \/ \E cookie \in Cookies : onConsent(cookie)
       \/ \E cookie \in Cookies : onChange(cookie)
       \/ gtagLoaded
    /\ UNCHANGED <<memoVars, productVars, validatorVars, analyticsVars, serviceWorkerVars,
                   organizationVars, orderVars, wrapperVars, schemaCacheVars>>

ConsentSpec == ConsentInit /\ [][ConsentNext]_vars

----------------------------------------------------------------------------
(* The order form: the user picks quantities, edits the number and submits  *)
(* the form in any order; window.open succeeds or throws.                    *)

OrderInit ==
    /\ MemoIdle /\ ProductIdle /\ CallIdle /\ AnalyticsIdle /\ ServiceWorkerIdle
    /\ OrganizationIdle /\ ConsentIdle /\ WrappersIdle /\ SchemaCacheIdle
    /\ appVersion \in AppVersions
    /\ selectedQuantity = Chars("250g")
    /\ whatsappNumber = <<>>
    /\ isLoading = FALSE
    /\ submission = NoSubmission

OrderNext ==
    /\ \/ \E quantity \in Quantities : setSelectedQuantity(quantity)
       \/ \E value \in TypedNumbers : setWhatsappNumber(value)
       \/ \E openThrows \in BOOLEAN : handlePlaceOrder(openThrows)
    /\ UNCHANGED <<memoVars, productVars, validatorVars, analyticsVars, serviceWorkerVars,
                   organizationVars, consentVars, wrapperVars, schemaCacheVars>>

OrderSpec == OrderInit /\ [][OrderNext]_vars

----------------------------------------------------------------------------
(* Two wrappers: isValidUrl and isValidCurrency are created in any order,   *)
(* with the default or a small maxSize, and then called with the same       *)
(* arguments and cleared in any order while time passes.                    *)

WrappersInit ==
    /\ MemoIdle /\ ProductIdle /\ CallIdle /\ AnalyticsIdle /\ ServiceWorkerIdle
    /\ OrganizationIdle /\ ConsentIdle /\ OrderFormIdle /\ SchemaCacheIdle
    /\ maps = <<>>
    /\ wrappers = <<>>

WrappersNext ==
    /\ \/ \E w \in WrapperNames, m \in WrapperMaxSizes : memoizeValidator(w, m)
       \/ \E w \in WrapperNames, input \in WrapperInputs : callWrapper(w, input)
       \/ \E w \in WrapperNames : clearWrapper(w)
       \/ wrapperClock
    /\ UNCHANGED <<fn, maxSize, cache, last, passed, productVars, analyticsVars,
                   serviceWorkerVars, organizationVars, consentVars, orderVars,
                   schemaCacheVars>>

WrappersSpec == WrappersInit /\ [][WrappersNext]_vars

----------------------------------------------------------------------------
(* The schema cache: get, set, clear and cleanup are called in any order    *)
(* while time passes.                                                       *)

SchemaCacheInit ==
    /\ MemoIdle /\ ProductIdle /\ CallIdle /\ AnalyticsIdle /\ ServiceWorkerIdle
    /\ OrganizationIdle /\ ConsentIdle /\ OrderFormIdle /\ WrappersIdle
    /\ schemaCache = <<>>
    /\ schemaOp = NoSchemaOp

SchemaCacheNext ==
    /\ \/ \E a \in SchemaArguments : get(a[1], a[2])
       \/ \E a \in SchemaArguments, data \in SchemaData : set(a[1], data, a[2])
       \/ clear
       \/ cleanupSchemaCache
       \/ schemaClock
    /\ UNCHANGED <<fn, maxSize, cache, last, passed, productVars, validatorVars,
                   analyticsVars, serviceWorkerVars, organizationVars, consentVars,
                   orderVars, wrapperVars>>

SchemaCacheSpec == SchemaCacheInit /\ [][SchemaCacheNext]_vars

----------------------------------------------------------------------------

(* Claims about memoizeValidator *)

\* a step of MemoNext that is a call of memoized: last' describes the call,
\* the unprimed variables the state it was made in
CallStep == last'.op = "call"

KeyOf(x) == JSONstringify(x)

\* the cache holds an entry for key k, of age below / at least TTL
HoldsLive(c, k, t) == \E i \in 1..Len(c) : c[i].key = k /\ t - c[i].timestamp < TTL
HoldsExpired(c, k, t) == \E i \in 1..Len(c) : c[i].key = k /\ t - c[i].timestamp >= TTL

StoredValue(c, k) == (CHOOSE e \in {c[i] : i \in 1..Len(c)} : e.key = k).value

KeySeq(c) == [i \in 1..Len(c) |-> c[i].key]

\* C1: whenever the cache holds a live entry for the key of x when memoized(x)
\* is called, the call returns the stored value and does not invoke fn, also
\* when the cache holds maxSize entries and x is the earliest-inserted key.
C1_LiveEntryIsServed ==
    [][(CallStep /\ maxSize > 0 /\ HoldsLive(cache, KeyOf(last'.input), now))
        => (/\ ~last'.invoked
            /\ ~last'.thrown
            /\ last'.value = StoredValue(cache, KeyOf(last'.input)))]_vars

\* C2: after any sequence of calls, clock advances and clearCache calls the
\* cache holds at most maxSize entries, for every maxSize including 0 and 1.
C2_SizeAtMostMaxSize == Len(cache) <= maxSize

\* the TTL rule of the lookup alone: a served value is younger than TTL, and an
\* entry of age >= TTL is recomputed and stored afresh under the same key
ExpiredIsRecomputed ==
    [][CallStep =>
        LET k == KeyOf(last'.input) IN
        /\ ~last'.invoked => HoldsLive(cache, k, now)
        /\ HoldsExpired(cache, k, now) =>
             /\ last'.invoked
             /\ ~last'.thrown =>
                  /\ last'.value = Apply(fn, last'.input).value
                  /\ \E i \in 1..Len(cache') :
                        cache'[i] = Entry(k, last'.value, now)]_vars

\* C3: a memoized call never returns a stored value of age >= TTL: such an
\* entry is treated as absent, fn is invoked again and its result is returned
\* and stored under the same key with the current time; an entry younger than
\* TTL is still served from the cache.
C3_TtlDecidesServing ==
    [][CallStep =>
        LET k == KeyOf(last'.input) IN
        /\ ~last'.invoked => HoldsLive(cache, k, now)
        /\ HoldsExpired(cache, k, now) =>
             /\ last'.invoked
             /\ ~last'.thrown =>
                  /\ last'.value = Apply(fn, last'.input).value
                  /\ \E i \in 1..Len(cache') :
                        cache'[i] = Entry(k, last'.value, now)
        /\ (maxSize > 0 /\ HoldsLive(cache, k, now)) =>
             /\ ~last'.invoked
             /\ last'.value = StoredValue(cache, k)]_vars

\* C4: cache transparency: every call memoized(x) gives its caller exactly what
\* fn(x) gives, whatever calls, evictions, expiries and clearCache preceded it.
C4_Transparency ==
    last.op = "call" =>
        /\ last.thrown = Apply(fn, last.input).thrown
        /\ ~last.thrown => last.value = Apply(fn, last.input).value

\* position of key k in the iteration order of c
Position(c, k) == CHOOSE i \in 1..Len(c) : c[i].key = k

\* the keys of c2 outside K are in the order they have in c1
SameOrder(c1, c2, K) ==
    \A i, j \in 1..Len(c2) :
        (i < j /\ {c2[i].key, c2[j].key} \cap K = {}
         /\ MapHas(c1, c2[i].key) /\ MapHas(c1, c2[j].key))
            => Position(c1, c2[i].key) < Position(c1, c2[j].key)

\* C5: when a call has to make room (cache at maxSize, nothing for the sweep to
\* delete) exactly one entry is removed, the earliest-inserted key still
\* present; a hit does not move a key in the eviction order (FIFO, not LRU).
\* With maxSize 2 the calls 1, 2, 3 leave keys 2 and 3, and a later call with 1
\* invokes fn again.
C5_FifoEviction ==
    [][CallStep =>
        LET k == KeyOf(last'.input)
            n == Len(cache)
            full == /\ n >= maxSize
                    /\ n > 0
                    /\ \A i \in 1..n : ~(now - cache[i].timestamp > TTL)
        IN
        /\ full =>
             \* the first key of the iteration order went, the others stayed
             /\ last'.evicted = <<cache[1].key>>
             /\ \A i \in 2..n : cache'[i - 1].key = cache[i].key
             /\ \A i \in 2..n : cache[i].key # k => cache'[i - 1] = cache[i]
             /\ Len(cache') \in {n - 1, n}
             /\ Len(cache') = n => cache'[n].key = k
             /\ (cache[1].key # k) => ~MapHas(cache', cache[1].key)
        \* no call reorders the other keys; a hit does not move its own key
        \* either, and changes no entry
        /\ SameOrder(cache, cache', {k})
        /\ ~last'.invoked => SameOrder(cache, cache', {})
        /\ ~last'.invoked =>
             \A i \in 1..Len(cache') : \E j \in 1..n : cache'[i] = cache[j]
        /\ (~last'.invoked /\ n < maxSize) => cache' = cache
        \* the test 'handles cache size limits'
        /\ (fn = "double" /\ maxSize = 2 /\ full /\ last'.input = Num(3)
            /\ KeySeq(cache) = <<KeyOf(Num(1)), KeyOf(Num(2))>>)
             => KeySeq(cache') = <<KeyOf(Num(2)), KeyOf(Num(3))>>
        /\ (fn = "double" /\ maxSize = 2 /\ last'.input = Num(1)
            /\ KeySeq(cache) = <<KeyOf(Num(2)), KeyOf(Num(3))>>)
             => last'.invoked]_vars

\* the end of the test: 1, 2, 3 were called with maxSize 2, then 1 again, which
\* evicted 2 as the oldest and was computed anew
C5_Witness ==
    /\ fn = "double" /\ maxSize = 2
    /\ last.op = "call" /\ last.input = Num(1) /\ last.invoked
    /\ last.swept = 0 /\ last.evicted = <<KeyOf(Num(2))>>
    /\ KeySeq(cache) = <<KeyOf(Num(3)), KeyOf(Num(1))>>
    /\ \A i \in 1..Len(cache) : now - cache[i].timestamp < TTL

\* C6: eviction at capacity sweeps first: every entry of age >= TTL (every
\* entry a lookup would treat as absent) is removed before any FIFO eviction,
\* so a live entry is evicted only when no expired entry remains in the cache.
C6_LiveEvictedOnlyIfNoExpired ==
    [][(CallStep /\ last'.evicted # <<>>
        /\ HoldsLive(cache, last'.evicted[1], now))
        => \A i \in 1..Len(cache) :
              now - cache[i].timestamp >= TTL
                  => \/ ~MapHas(cache', cache[i].key)
                     \/ cache[i].key = KeyOf(last'.input)]_vars

\* C7: if the distinct inputs passed to a wrapper are at most maxSize, then
\* within one TTL window fn is invoked at most once per input: a call with an
\* input passed before is a cache hit.
C7_OneInvocationPerInput ==
    [][(CallStep /\ now < TTL /\ ~last'.thrown
        /\ KeyOf(last'.input) \in passed
        /\ Cardinality(passed) <= maxSize)
        => ~last'.invoked]_vars

\* C8: clearCache removes every entry whatever its age and the cache size and
\* changes nothing else; the first call for any key after it invokes fn again,
\* and the wrapper then caches as before.
C8_ClearCache ==
    [][/\ last'.op = "clearCache" =>
            /\ cache' = <<>>
            /\ fn' = fn /\ maxSize' = maxSize /\ now' = now
       /\ (CallStep /\ KeyOf(last'.input) \notin passed) =>
            /\ last'.invoked
            /\ ~last'.thrown =>
                 /\ last'.value = Apply(fn, last'.input).value
                 /\ \E i \in 1..Len(cache') :
                       cache'[i] = Entry(KeyOf(last'.input), last'.value, now)
       /\ (CallStep /\ last.op = "clearCache") => last'.invoked]_vars

\* clearCache has just emptied a full cache, at a time when entries can be of
\* any age
C8_Witness ==
    /\ last.op = "clearCache" /\ cache = <<>> /\ now > TTL
    /\ last.swept >= 2 /\ last.swept = maxSize

\* C9: two inputs share a cache entry exactly when they are structurally
\* equal: value-equal objects of different identity share one, inputs that
\* differ in value (undefined and null included) never do.
C9_SharedEntryIffStructEq ==
    (last.op = "call" /\ MapHas(cache, KeyOf(last.input)))
        => \A y \in InputsOf(fn) :
              (KeyOf(y) = KeyOf(last.input)) <=> StructEq(y, last.input)

----------------------------------------------------------------------------
(* Claims about generateProductSchema *)

\* the value a field is validated with: the config's, or the default when absent
FieldValue(v, default) == IF v \in {Undefined, Null} THEN default ELSE v.str

\* C10: generateProductSchema validates priceCurrency, availability,
\* ratingValue and reviewCount in this order (each defaulted when absent); at
\* the first field whose validator returns false it throws that field's typed
\* error carrying the offending value, validates no later field and returns no
\* schema, not even a partial one.
C10_FirstFailureThrows ==
    LET c == FieldValue(config.priceCurrency, <<"U", "S", "D">>)
        a == FieldValue(config.availability, DefaultAvailability)
        r == FieldValue(config.ratingValue, <<"5">>)
        n == FieldValue(config.reviewCount, <<"5", "0">>)
        order == <<"isValidCurrency", "isValidAvailability", "isValidRating",
                   "isValidReviewCount">>
        throws(error, value, k) ==
            /\ result.kind = "thrown"
            /\ result.error = error
            /\ result.value = value
            /\ result.schema = NoSchema
            /\ validated = SubSeq(order, 1, k)
    IN  result.kind # "none" =>
        /\ ~isValidCurrency(c) => throws("InvalidCurrencyError", c, 1)
        /\ (isValidCurrency(c) /\ ~isValidAvailability(a))
             => throws("InvalidAvailabilityError", a, 2)
        /\ (isValidCurrency(c) /\ isValidAvailability(a) /\ ~isValidRating(r))
             => throws("InvalidRatingError", r, 3)
        /\ (isValidCurrency(c) /\ isValidAvailability(a) /\ isValidRating(r)
            /\ ~isValidReviewCount(n))
             => throws("InvalidReviewCountError", n, 4)
        /\ (isValidCurrency(c) /\ isValidAvailability(a) /\ isValidRating(r)
            /\ isValidReviewCount(n))
             => (result.kind = "returned" /\ validated = order)
        /\ result.kind = "returned" => result.schema = Schema(c, a, r, n)

\* a call whose availability and review count are both invalid: it threw
\* InvalidAvailabilityError after two validations and never looked at the count
C10_Witness ==
    /\ result.kind = "thrown"
    /\ result.error = "InvalidAvailabilityError"
    /\ result.value = <<"I", "n", "S", "t", "o", "c", "k">>
    /\ config.priceCurrency = Undefined
    /\ config.ratingValue = Str(<<"6">>)
    /\ config.reviewCount = Str(<<"-", "1">>)
    /\ Len(validated) = 2

\* C11: whenever generateProductSchema returns, offers.priceCurrency,
\* offers.availability, aggregateRating.ratingValue and
\* aggregateRating.reviewCount are exactly the supplied (or default) values and
\* each passes its validator; the call with no config returns without throwing.
C11_ReturnedSchemaIsValidated ==
    /\ result.kind = "returned" =>
          /\ result.schema.priceCurrency = Coalesce(config.priceCurrency, DefaultCurrency)
          /\ result.schema.availability = Coalesce(config.availability, DefaultAvailability)
          /\ result.schema.ratingValue = Coalesce(config.ratingValue, DefaultRatingValue)
          /\ result.schema.reviewCount = Coalesce(config.reviewCount, DefaultReviewCount)
          /\ isValidCurrency(result.schema.priceCurrency)
          /\ isValidAvailability(result.schema.availability)
          /\ isValidRating(result.schema.ratingValue)
          /\ isValidReviewCount(result.schema.reviewCount)
    /\ (result.kind # "none" /\ config = NoConfig) =>
          /\ result.kind = "returned"
          /\ result.schema = Schema(DefaultCurrency, DefaultAvailability,
                                    DefaultRatingValue, DefaultReviewCount)

\* a call that returned a schema carrying a supplied currency and review count
\* next to a defaulted availability and rating
C11_Witness ==
    /\ result.kind = "returned"
    /\ config.priceCurrency = Str(<<"E", "U", "R">>)
    /\ config.availability = Undefined
    /\ config.ratingValue = Undefined
    /\ config.reviewCount = Str(<<"1", "0">>)
    /\ result.schema = Schema(<<"E", "U", "R">>, DefaultAvailability,
                              DefaultRatingValue, <<"1", "0">>)

----------------------------------------------------------------------------
(* Claims about the validators *)

\* C12: each validator throws a TypeError when its argument is not a string
\* (number, null, undefined, object, array), and for every string argument
\* returns a boolean without throwing.
C12_TypeErrorIffNotString ==
    call.validator # "none" =>
        /\ call.input.kind # "string" => call.thrown
        /\ call.input.kind = "string" => (~call.thrown /\ call.value.kind = "boolean")

\* the same contract of the memoized validators of part_018, where every
\* validator starts with a typeof check: it holds there
MemoizedValidatorThrowsIffNotString ==
    last.op = "call" =>
        /\ last.input.kind # "string" => last.thrown
        /\ last.input.kind = "string" => (~last.thrown /\ last.value.kind = "boolean")

\* the outcome of the call of the memoized validator f with a string argument
ValidatorSaid(f) == last.op = "call" /\ fn = f /\ last.input.kind = "string"

\* only decimal digits, no leading zero unless the text is "0", at most 10 digits
PlainCount(s) ==
    /\ s # <<>> /\ AllIn(s, DigitSet)
    /\ (Len(s) = 1 \/ s[1] # "0")
    /\ Len(s) <= 10

\* C13: isValidReviewCount(s) is true exactly when s consists only of decimal
\* digits, has no leading zero unless s is "0", and is at most 10 digits long.
C13_ReviewCountFormat ==
    ValidatorSaid("_isValidReviewCount") =>
        /\ ~last.thrown
        /\ last.value = Bool(PlainCount(last.input.str))

\* a plain decimal numeral: digits, then at most one dot followed by one of the
\* fractions 0, 25, 5, 75; no leading zero before another digit; value in [0, 5]
PlainRating(s) ==
    \E d \in 1..Len(s) :
        LET int == SubSeq(s, 1, d)
            frac == Drop(s, d + 1)
            hundredths == CASE frac \in {<<>>, Chars("0")} -> 0
                            [] frac = Chars("25") -> 25
                            [] frac = Chars("5") -> 50
                            [] frac = Chars("75") -> 75
                            [] OTHER -> -1
        IN  /\ AllIn(int, DigitSet)
            /\ (Len(int) = 1 \/ int[1] # "0")
            /\ (d = Len(s) \/ (s[d + 1] = "." /\ frac # <<>>))
            /\ hundredths >= 0
            /\ Len(int) <= 2
            /\ DigitsValue(int) * 100 + hundredths <= 500

AcceptableHost(h) ==
    LET labels == Split(h, ".")
        tld == labels[Len(labels)]
    IN  \/ /\ Len(labels) = 4
           /\ \A i \in 1..4 : /\ labels[i] # <<>> /\ AllIn(labels[i], DigitSet)
                              /\ Len(labels[i]) <= 3 /\ DigitsValue(labels[i]) <= 255
        \/ (Len(h) > 2 /\ Head(h) = "[" /\ h[Len(h)] = "]")
        \/ /\ Len(labels) >= 2
           /\ \A i \in 1..Len(labels) :
                 /\ labels[i] # <<>>
                 /\ Head(labels[i]) # "-" /\ labels[i][Len(labels[i])] # "-"
           /\ Len(tld) >= 2 /\ ~AllIn(tld, DigitSet)

\* C15: isValidUrl(s) is true only if s parses as a URL with scheme http or
\* https whose host is an IPv4 literal, a bracketed IPv6 literal or a well-formed
\* domain; and for every kind of host it is false when the port is outside
\* 1..65535 or when the path or query contains a literal '//'.
C15_UrlAcceptedOnlyIfWellFormed ==
    (ValidatorSaid("_isValidUrl") /\ last.value = Bool(TRUE)) =>
        LET u == URL(last.input.str) IN
        /\ u.ok
        /\ u.protocol \in {Chars("http:"), Chars("https:")}
        /\ AcceptableHost(u.hostname)
        /\ (u.port = <<>> \/ DigitsValue(u.port) \in 1..65535)
        /\ ~Includes(u.pathname \o u.search, <<"/", "/">>)

\* C16: isValidCurrency(s) is true exactly when s is, case-sensitively, one of
\* the supported ISO 4217 codes, which include USD, EUR, GBP, JPY, CAD, AUD, CNY
\* and CHF; lower-case or mixed-case forms, the empty string and shorter or
\* longer strings are rejected.
C16_SupportedCurrencies ==
    (call.validator = "isValidCurrency" /\ call.input.kind = "string") =>
        /\ ~call.thrown
        /\ call.value = Bool(call.input.str \in VALID_CURRENCIES)
        /\ call.input.str \in {Chars("USD"), Chars("EUR"), Chars("GBP"), Chars("JPY"),
                               Chars("CAD"), Chars("AUD"), Chars("CNY"), Chars("CHF")}
              => call.value = Bool(TRUE)
        /\ call.input.str \in {Chars("usd"), Chars("Usd"), Chars("UsD"), Chars(""),
                               Chars("US"), Chars("USDD"), Chars("INVALID")}
              => call.value = Bool(FALSE)

----------------------------------------------------------------------------
(* Claims about analytics.ts *)

\* the helper trackers, which call trackEvent and drop its promise
HelperTrackers ==
    {"trackFormSubmission", "trackWhatsAppClick", "trackProductView", "trackError"}

\* window.umami.track was called for call number i
TrackedBy(i) == \E t \in DOMAIN tracked : tracked[t].by = i

\* console.error('Analytics Error:', ...) was called for call number i
LoggedBy(i) == \E c \in DOMAIN console : console[c].by = i /\ console[c].text = "Analytics Error:"

\* C17: a call of trackEvent with an empty event name, and a call of
\* trackPageView with an empty URL, gives a promise rejected with
\* 'Event name is required' / 'URL is required', and window.umami.track is
\* not called for that invocation.
C17_EmptyArgumentRejectsUntracked ==
    \A i \in DOMAIN promises :
        promises[i].arg = "" =>
            /\ promises[i].state = "rejected"
            /\ promises[i].fn = "trackEvent" => promises[i].reason = "Event name is required"
            /\ promises[i].fn = "trackPageView" => promises[i].reason = "URL is required"
            /\ ~TrackedBy(i)

\* with window.umami.track available, trackEvent('') and trackPageView('')
\* have both been called
C17_Witness ==
    /\ window = "umami"
    /\ \E i \in DOMAIN promises : promises[i].fn = "trackEvent" /\ promises[i].arg = ""
    /\ \E i \in DOMAIN promises : promises[i].fn = "trackPageView" /\ promises[i].arg = ""

\* C18: a tracking failure never reaches the caller.  A call with a non-empty
\* name or URL never gives a rejected promise; when window.umami.track threw
\* or its promise was rejected, the call logged 'Analytics Error:' and its
\* promise is fulfilled; when window.umami.track is unavailable the promise
\* is fulfilled and no tracker was called; the helper trackers never throw
\* and their trackEvent promise is never rejected.
C18_TrackingFailureIsContained ==
    /\ \A i \in DOMAIN promises :
          /\ promises[i].arg # "" => promises[i].state # "rejected"
          /\ promises[i].arg # "" /\ promises[i].track \in {"threw", "rejected"} =>
                promises[i].state = "fulfilled" /\ LoggedBy(i)
          /\ promises[i].arg # "" /\ isUmamiAvailable # "true" =>
                promises[i].state = "fulfilled" /\ ~TrackedBy(i)
          /\ promises[i].caller \in HelperTrackers => promises[i].state # "rejected"
    /\ returned.fn \in HelperTrackers => ~returned.threw

\* a helper tracker's window.umami.track promise was rejected, and another
\* call's window.umami.track threw
C18_Witness ==
    /\ \E i \in DOMAIN promises :
          promises[i].caller \in HelperTrackers /\ promises[i].track = "rejected"
    /\ \E i \in DOMAIN promises : promises[i].track = "threw"

----------------------------------------------------------------------------
(* Claims about the service worker *)

C20_OnlySuccessfulBasicStored ==
    /\ \A entry \in caches :
          /\ entry.by = "fetch" => entry.cache = CACHE_NAME
          /\ entry.cache = CACHE_NAME =>
                \/ entry.by = "install" /\ entry.url \in urlsToCache(script)
                \/ /\ entry.by = "fetch"
                   /\ entry.response # NoResponse
                   /\ entry.response.status = 200
                   /\ entry.response.type = "basic"
                   /\ SameOrigin(entry.url)
    /\ \A e \in DOMAIN events :
          /\ events[e].put # "none" =>
                /\ events[e].network # NoResponse
                /\ events[e].network.status = 200
                /\ events[e].network.type = "basic"
          /\ events[e].from = "network" /\ events[e].put = "none" =>
                events[e].response = events[e].network

\* under sw.js one network response was stored by the fetch handler, and a
\* response with an error status or of another type was returned unstored
C20_Witness ==
    /\ script = "sw.js"
    /\ \E entry \in caches : entry.by = "fetch"
    /\ \E e \in DOMAIN events :
          /\ events[e].from = "network"
          /\ events[e].network.status # 200 \/ events[e].network.type # "basic"
          /\ events[e].put = "none"

\* C21: once the worker is activated, Cache Storage holds no cache whose name
\* differs from CACHE_NAME: activation deletes the caches of older versions.
C21_OldCachesDeletedOnActivation ==
    phase = "activated" => \A entry \in caches : entry.cache = CACHE_NAME

----------------------------------------------------------------------------
(* Claims about generateOrganizationSchema *)

\* the URLs of a config in validation order: url, logo, then the sameAs
\* entries, with the defaults where the config gives none
OrganizationUrlsOf(cfg) ==
    <<FieldValue(cfg.url, DefaultUrl), FieldValue(cfg.logo, DefaultLogo)>>
    \o (IF cfg.socialMedia.defined THEN cfg.socialMedia.list ELSE DefaultSameAs)

\* C22: generateOrganizationSchema validates url, then logo, then each sameAs
\* entry in list order; it throws InvalidUrlError carrying the first URL that
\* isValidUrl rejects, and returns the schema, holding exactly these URLs,
\* only if isValidUrl accepts every one of them.
C22_OrganizationUrlsValidatedInOrder ==
    organization.result.kind # "none" =>
        LET urls == OrganizationUrlsOf(organization.config)
            r == organization.result
            invalid == {k \in 1..Len(urls) : ~URL(urls[k]).ok}
        IN  /\ r.kind = "returned" <=> invalid = {}
            /\ r.kind = "returned" =>
                  /\ r.calls = urls
                  /\ r.schema.url = urls[1]
                  /\ r.schema.logo = urls[2]
                  /\ r.schema.sameAs = SubSeq(urls, 3, Len(urls))
                  /\ URL(r.schema.url).ok /\ URL(r.schema.logo).ok
                  /\ \A i \in 1..Len(r.schema.sameAs) : URL(r.schema.sameAs[i]).ok
            /\ r.kind = "thrown" =>
                  /\ r.error = "InvalidUrlError"
                  /\ \E k \in invalid :
                        /\ \A j \in invalid : k <= j
                        /\ r.value = urls[k]
                        /\ r.calls = SubSeq(urls, 1, k)

\* a config whose url is valid, whose logo is not and whose socialMedia has
\* an invalid entry too: the logo is the URL thrown
C22_Witness ==
    /\ organization.result.kind = "thrown"
    /\ organization.result.value = Chars("not-a-url")
    /\ Len(organization.result.calls) = 2
    /\ organization.config.socialMedia.defined
    /\ \E i \in 1..Len(organization.config.socialMedia.list) :
          ~URL(organization.config.socialMedia.list[i]).ok

----------------------------------------------------------------------------
(* Claims about cookieConsent.ts *)

\* 'granted' exactly when category is accepted by the cookie
Implied(cookie, category) ==
    IF cookie.defined /\ category \in {cookie.categories[i] : i \in DOMAIN cookie.categories}
    THEN "granted" ELSE "denied"

DigitsOf(number) == SelectSeq(number, IsDigit)

\* the link for the digits of a number and a quantity, with the message
\* percent-encoded by hand
ExpectedWhatsappUrl(digits, quantity) ==
    Chars("https://wa.me/") \o digits
        \o Chars("?text=Hi%2C%20I'd%20like%20to%20order%20") \o quantity
        \o Chars("%20of%20Choji's%20homemade%20cat%20food.")

\* C24: a run of handlePlaceOrder of the form with a number input calls
\* window.open only when the entered number is non-empty and has between 10
\* and 15 digits once every non-digit is removed, and then exactly once with
\* https://wa.me/<digits>?text=<the percent-encoded message naming the
\* selected quantity>; otherwise it shows an alert and opens no window.
C24_OpensOnlyForValidNumber ==
    [][(appVersion = "customer" /\ \E openThrows \in BOOLEAN : handlePlaceOrder(openThrows)) =>
          IF /\ whatsappNumber # <<>>
             /\ Len(DigitsOf(whatsappNumber)) >= 10
             /\ Len(DigitsOf(whatsappNumber)) <= 15
          THEN submission'.opened =
                   <<ExpectedWhatsappUrl(DigitsOf(whatsappNumber), selectedQuantity)>>
          ELSE /\ submission'.opened = <<>>
               /\ submission'.alerts # <<>>]_vars

\* the form was submitted with the number +92 315 2967579 and 500g selected
\* and the link was opened
C24_Witness ==
    /\ appVersion = "customer"
    /\ whatsappNumber = Chars("+92 315 2967579")
    /\ selectedQuantity = Chars("500g")
    /\ submission.opened =
           <<Chars("https://wa.me/923152967579?text=Hi%2C%20I'd%20like%20to%20order%20500g%20of%20Choji's%20homemade%20cat%20food.")>>

\* C25: every run of handlePlaceOrder, of either form, calls setIsLoading(true)
\* first and setIsLoading(false) last and leaves isLoading false; when
\* window.open throws, the alert is shown and the run does not throw.
C25_NeverLeftLoading ==
    /\ isLoading = FALSE
    /\ submission # NoSubmission =>
          /\ Len(submission.setIsLoading) >= 2
          /\ Head(submission.setIsLoading) = TRUE
          /\ submission.setIsLoading[Len(submission.setIsLoading)] = FALSE
          /\ ~submission.threw
          /\ Len(submission.alerts) <= 1

\* window.open threw in the form with the business number: the alert was
\* shown and the form is not loading
C25_Witness ==
    /\ appVersion = "business"
    /\ submission.opened # <<>>
    /\ submission.alerts = <<"Failed to open WhatsApp. Please try again.">>
    /\ ~submission.threw
    /\ isLoading = FALSE

\* C26: after memoized(x) returned normally the cache holds an entry for the
\* key of x whose value is the returned value and whose age is below TTL; a
\* call that was served from the cache leaves the entry it was served from as
\* it was, a call that invoked fn leaves the entry it stored, whatever the
\* call's sweep and eviction removed and whatever maxSize is.
C26_ReturnedEntryIsCached ==
    [][(CallStep /\ ~last'.thrown) =>
        LET k == KeyOf(last'.input) IN
        /\ MapHas(cache', k)
        /\ MapGet(cache', k).value = last'.value
        /\ now' - MapGet(cache', k).timestamp < TTL
        /\ ~last'.invoked => MapHas(cache, k) /\ MapGet(cache', k) = MapGet(cache, k)
        /\ last'.invoked => MapGet(cache', k) = Entry(k, last'.value, now)]_vars

\* a call at capacity evicted the oldest entry and was served from the cache
C26_Witness ==
    /\ maxSize = 2
    /\ last.op = "call" /\ ~last.thrown /\ ~last.invoked
    /\ last.evicted # <<>>
    /\ MapHas(cache, KeyOf(last.input))
    /\ MapGet(cache, KeyOf(last.input)).value = last.value

\* C27: when fn throws during memoized(x) the call throws, and the cache is
\* exactly what it was before the call, also when it was at maxSize.
C27_ThrowLeavesCacheUnchanged ==
    [][(CallStep /\ last'.thrown) => (last'.invoked /\ cache' = cache)]_vars

\* C28: when a call evicts (the cache is still at maxSize after the sweep),
\* the removed entry has the smallest timestamp of the stored entries.
C28_EvictsSmallestTimestamp ==
    [][(CallStep /\ last'.evicted # <<>>) =>
        \A i \in 1..Len(cleanup(cache, now)) :
            Head(cleanup(cache, now)).timestamp <= cleanup(cache, now)[i].timestamp]_vars

\* the entries of wrapper w's cache in state (heap, ws)
CacheOf(heap, ws, w) == heap[ws[w].cache]

\* C29: every wrapper has a Map of its own: no two wrappers refer to the same
\* Map, and creating, calling or clearing one wrapper leaves the entries of
\* every other wrapper as they were, also when both hold the same keys.
C29_WrappersHaveIndependentCaches ==
    [][/\ \A w1, w2 \in DOMAIN wrappers' :
              w1 # w2 => wrappers'[w1].cache # wrappers'[w2].cache
       /\ \A w \in DOMAIN wrappers :
              /\ wrappers'[w] = wrappers[w]
              /\ w # call'.validator =>
                     CacheOf(maps', wrappers', w) = CacheOf(maps, wrappers, w)
       /\ (call'.validator \in DOMAIN wrappers /\ ~call'.thrown
           /\ call'.input.kind = "string") =>
              call'.value = Apply(Wrapped(call'.validator), call'.input).value]_vars

\* both wrappers were called with 'USD' and hold the key "USD", isValidUrl
\* with the value false and isValidCurrency with the value true; the call
\* before this state was isValidCurrency('USD')
C29_Witness ==
    /\ DOMAIN wrappers = WrapperNames
    /\ call = WrapperCall("isValidCurrency", Str(Chars("USD")), FALSE, Bool(TRUE))
    /\ MapHas(CacheOf(maps, wrappers, "isValidUrl"), KeyOf(Str(Chars("USD"))))
    /\ MapGet(CacheOf(maps, wrappers, "isValidUrl"), KeyOf(Str(Chars("USD")))).value
           = Bool(FALSE)
    /\ MapGet(CacheOf(maps, wrappers, "isValidCurrency"), KeyOf(Str(Chars("USD")))).value
           = Bool(TRUE)

\* the entries of c that are younger than five minutes at time t
LiveEntries(c, t) == {c[i] : i \in {j \in 1..Len(c) : t - c[j].timestamp < 5 * 60 * 1000}}

EntriesOf(c) == {c[i] : i \in 1..Len(c)}

\* C30: get never returns data of age >= TTL (5 minutes) and returns the data
\* of the latest set of the key while that is younger than TTL; get on an
\* expired key deletes that entry only, cleanup deletes exactly the entries
\* of age >= TTL, set replaces the entry of its key only, and no call but
\* clear removes a live entry.
C30_SchemaCacheServesLiveDataOnly ==
    [][schemaOp' # schemaOp =>
        LET live == LiveEntries(schemaCache, now)
            ofKey == {e \in EntriesOf(schemaCache) : e.key = schemaOp'.key}
        IN
        /\ schemaOp'.op = "get" =>
              /\ schemaOp'.data # NoData =>
                    \E e \in ofKey \cap live : /\ e.data = schemaOp'.data
                                               /\ now - e.timestamp < 5 * 60 * 1000
              /\ ofKey \cap live # {} =>
                    /\ schemaOp'.data \in {e.data : e \in ofKey}
                    /\ schemaCache' = schemaCache
              /\ ofKey \cap live = {} =>
                    /\ schemaOp'.data = NoData
                    /\ EntriesOf(schemaCache') = EntriesOf(schemaCache) \ ofKey
              /\ ofKey \subseteq live => schemaCache' = schemaCache
        /\ schemaOp'.op = "set" =>
              /\ CacheEntry(schemaOp'.key, schemaOp'.data, now) \in EntriesOf(schemaCache')
              /\ EntriesOf(schemaCache') \ {CacheEntry(schemaOp'.key, schemaOp'.data, now)}
                     = EntriesOf(schemaCache) \ ofKey
        /\ schemaOp'.op = "cleanup" => EntriesOf(schemaCache') = live
        /\ schemaOp'.op = "clear" => schemaCache' = <<>>
        /\ schemaOp'.op # "clear" =>
              \A e \in live : e \in EntriesOf(schemaCache') \/ e \in ofKey
        /\ Cardinality({e.key : e \in EntriesOf(schemaCache')}) = Len(schemaCache')]_vars

\* get found the entry of its key at age >= TTL, returned undefined and
\* deleted that entry, and a live entry of another key is still cached
C30_Witness ==
    /\ schemaOp.op = "get"
    /\ schemaOp.data = NoData
    /\ schemaOp.deleted = 1
    /\ Len(schemaCache) = 1
    /\ now - schemaCache[1].timestamp < 5 * 60 * 1000
    /\ now - schemaCache[1].timestamp > 0

====
